---- MODULE Spec2Model ----
(***************************************************************************)
(* The transfer core of the ledger service: SQLStore.execTX and            *)
(* SQLStore.TransferTx (db/sqlc store), addMoney, and the storage engine   *)
(* they run against (committed tables, transaction-local writes, row       *)
(* locks).  Each SQL statement of a transfer is one step, so that          *)
(* concurrent transfers interleave statement by statement.                 *)
(***************************************************************************)
EXTENDS Integers, Sequences, FiniteSets, TLC

(* ---------------------------------------------------------------------- *)
(* Bounds of the model                                                     *)
(* ---------------------------------------------------------------------- *)
NumAccounts == 3          \* account ids 1..NumAccounts exist
MaxAmount == 2            \* largest amount of a transfer request
RandomMoney == 5          \* step between the opening balances util.RandomMoney() draws
NumAlt == 3               \* concurrent transfers alternating between accounts 1 and 2
MaxAttempts == 3          \* times a caller submits one request until it succeeds

AccountIDs == 1..NumAccounts
Amounts == (0 - 1)..MaxAmount                \* what a caller of the store can pass

VARIABLES
    plan,            \* what each caller of this run may submit (see Requests)
    accounts,        \* committed accounts table: id -> row
    transfers,       \* committed transfers table: set of rows
    entries,         \* committed entries table: set of rows
    opening,         \* CreateAccountParams.Balance each account was created with
    pc,              \* position of each TransferTx call
    arg,             \* TransferTxParams of each call
    result,          \* TransferTxResult of each call
    txn,             \* the database transaction of each call
    workErr,         \* err returned by the function execTX runs
    rbErr,           \* rbErr of tx.Rollback()
    ret,             \* error returned by TransferTx
    issued,          \* statements each call has sent to the engine, in order
    cancelled,       \* the context of each call has been cancelled
    queries,         \* calls of the query layer made outside TransferTx, with their results
    http             \* the HTTP requests in the handlers

vars == <<plan, accounts, transfers, entries, opening,
          pc, arg, result, txn, workErr, rbErr, ret, issued, cancelled,
          queries, http>>

\* the callers of this run
Calls == DOMAIN plan

(* ---------------------------------------------------------------------- *)
(* Values                                                                  *)
(* ---------------------------------------------------------------------- *)
\* A Go error is modelled by the tokens of its message; nil is the empty one.
NoErr == <<>>
ErrBegin == <<"begin failed">>
ErrStmt == <<"statement failed">>
ErrCommit == <<"commit failed">>
ErrRollback == <<"rollback failed">>
ErrCanceled == <<"context canceled">>
ErrTxDone == <<"sql: transaction has already been committed or rolled back">>
ErrNoRows == <<"sql: no rows in result set">>
ErrForeignKey == <<"pq: foreign_key_violation">>

\* fmt.Errorf("tx err: %v, rb err: %v", err, rbErr): a new error whose message
\* holds both messages.
Errorf(err, rb) == <<"tx err: ">> \o err \o <<", rb err: ">> \o rb

Contains(msg, e) ==
    \E i \in 1..Len(msg) : i + Len(e) - 1 <= Len(msg) /\ SubSeq(msg, i, i + Len(e) - 1) = e

Owner(id) == id          \* every account has its own owner
Currency(id) == IF id = 2 THEN "EUR" ELSE "USD"      \* accounts in two currencies
CreatedAt(id) == id       \* accounts are created in the order of their ids

ZeroAccount == [id |-> 0, owner |-> 0, balance |-> 0, currency |-> "", created_at |-> 0]
ZeroEntry == [id |-> 0, account_id |-> 0, amount |-> 0]
ZeroTransfer == [id |-> 0, from_account_id |-> 0, to_account_id |-> 0, amount |-> 0]
ZeroResult == [Transfer |-> ZeroTransfer, FromAccount |-> ZeroAccount, ToAccount |-> ZeroAccount,
               FromEntry |-> ZeroEntry, ToEntry |-> ZeroEntry]
ZeroArg == [FromAccountID |-> 0, ToAccountID |-> 0, Amount |-> 0]
NoTx == [status |-> "none", transfers |-> {}, entries |-> {}, rows |-> <<>>, keyShare |-> {}]

\* a body c.BodyParser rejects
Malformed == [ok |-> FALSE, FromAccountID |-> 0, ToAccountID |-> 0, Amount |-> 0, Currency |-> ""]

\* an HTTP request that has not arrived yet
NewRequest ==
    [pc |-> "new", handler |-> "", header |-> <<>>, body |-> Malformed, payload |-> 0,
     next |-> FALSE, responses |-> 0, status |-> 0, reply |-> <<>>, store |-> <<>>, fromAccount |-> ZeroAccount]

Args == [FromAccountID : AccountIDs, ToAccountID : AccountIDs, Amount : Amounts]

\* an identifier no account has
MissingID == NumAccounts + 1

\* requests with a positive amount naming an account that does not exist as
\* source, as destination or as both
MissingArgs ==
    {a \in [FromAccountID : AccountIDs \cup {MissingID}, ToAccountID : AccountIDs \cup {MissingID},
            Amount : 1..MaxAmount] : MissingID \in {a.FromAccountID, a.ToAccountID}}

\* The requests caller c may submit: any request with a positive amount, any
\* request at all, any transfer of 1 out of one account, one fixed request,
\* the request of an earlier call once that call has returned an error, a
\* request naming an account that does not exist, or any transfer between two
\* different accounts of a set; a
\* call made by a handler of the API gets its request from the handler.
Requests(c) ==
    CASE plan[c].kind = "valid" -> {a \in Args : a.Amount > 0}
      [] plan[c].kind = "any" -> Args
      [] plan[c].kind = "from" -> {a \in Args : a.FromAccountID = plan[c].from /\ a.Amount = 1}
      [] plan[c].kind = "fixed" -> {plan[c].arg}
      [] plan[c].kind = "retry" ->
            IF pc[plan[c].of] = "done" /\ ret[plan[c].of] /= NoErr
            THEN {arg[plan[c].of]}
            ELSE {}
      [] plan[c].kind = "missing" -> MissingArgs
      [] plan[c].kind = "within" ->
            {a \in [FromAccountID : plan[c].ids, ToAccountID : plan[c].ids,
                    Amount : 1..MaxAmount] : a.FromAccountID /= a.ToAccountID}
      [] plan[c].kind \in {"api", "client"} -> {}

\* Generated identifiers: every insert gets an id no other insert gets.
TransferID(c) == c
EntryID(c, at) == IF at = "CreateEntry1" THEN 2 * c - 1 ELSE 2 * c

(* ---------------------------------------------------------------------- *)
(* Storage engine: row locks and the query layer                           *)
(* ---------------------------------------------------------------------- *)
\* Rows of the accounts table a transaction has updated and not yet committed.
Updated(c) == DOMAIN txn[c].rows

\* Row locks on accounts an open transaction holds until it ends: a key-share
\* lock on every row one of its inserts references, an update lock on every row
\* whose balance it has updated.
Held(c) ==
    IF txn[c].status = "open"
    THEN {[row |-> r, mode |-> "KeyShare"] : r \in txn[c].keyShare}
         \cup {[row |-> r, mode |-> "NoKeyUpdate"] : r \in Updated(c)}
    ELSE {}

\* Two locks on one row conflict when both are update locks; a key-share lock
\* conflicts with neither a key-share lock nor an update of the balance column.
LockConflict(m1, m2) == m1 = "NoKeyUpdate" /\ m2 = "NoKeyUpdate"

\* The row version the statement of c sees: its own write, else the committed one.
Visible(c, id) == IF id \in Updated(c) THEN txn[c].rows[id] ELSE accounts[id]

\* The foreign keys of an insert hold: every account it references exists.
ForeignKeysHold(ids) == ids \subseteq DOMAIN accounts

\* variant: the balance kept from falling below zero
AddAccountBalanceRowFloor(c, p) ==
    [Visible(c, p.ID) EXCEPT !.balance = IF @ + p.Amount < 0 THEN 0 ELSE @ + p.Amount]

\* UPDATE accounts SET balance = balance + amount WHERE id = id RETURNING *
AddAccountBalanceRow(c, p) == [Visible(c, p.ID) EXCEPT !.balance = @ + p.Amount]

(* ---------------------------------------------------------------------- *)
(* TransferTx, statement by statement                                      *)
(* ---------------------------------------------------------------------- *)
CreateTransferParams(a) ==
    [FromAccountID |-> a.FromAccountID, ToAccountID |-> a.ToAccountID, Amount |-> a.Amount]

\* variant: the debit entry written with the amount not negated
CreateEntryParams1Positive(a) == [AccountID |-> a.FromAccountID, Amount |-> a.Amount]
CreateEntryParams1(a) == [AccountID |-> a.FromAccountID, Amount |-> 0 - a.Amount]

\* variants: the credit entry written on the source, or with the amount negated
CreateEntryParams2Source(a) == [AccountID |-> a.FromAccountID, Amount |-> a.Amount]
CreateEntryParams2Negated(a) == [AccountID |-> a.ToAccountID, Amount |-> 0 - a.Amount]
CreateEntryParams2(a) == [AccountID |-> a.ToAccountID, Amount |-> a.Amount]

\* variant: the source is always adjusted first
FromFirstAlways(a) == TRUE
\* variant: the comparison reversed
FromFirstReversed(a) == a.FromAccountID > a.ToAccountID
\* if arg.FromAccountID < arg.ToAccountID
FromFirst(a) == a.FromAccountID < a.ToAccountID

\* variant: addMoney always called source first, without the comparison
AddMoneyArgsUnordered(a) ==
    [accountID1 |-> a.FromAccountID, amount1 |-> 0 - a.Amount,
     accountID2 |-> a.ToAccountID, amount2 |-> a.Amount]

\* variant: the second branch passing the amount of the source not negated
AddMoneyArgsNotNegated(a) ==
    IF FromFirst(a)
    THEN [accountID1 |-> a.FromAccountID, amount1 |-> 0 - a.Amount,
          accountID2 |-> a.ToAccountID, amount2 |-> a.Amount]
    ELSE [accountID1 |-> a.ToAccountID, amount1 |-> a.Amount,
          accountID2 |-> a.FromAccountID, amount2 |-> a.Amount]

\* the arguments addMoney is called with: (accountID1, amount1, accountID2, amount2)
AddMoneyArgs(a) ==
    IF FromFirst(a)
    THEN [accountID1 |-> a.FromAccountID, amount1 |-> 0 - a.Amount,
          accountID2 |-> a.ToAccountID, amount2 |-> a.Amount]
    ELSE [accountID1 |-> a.ToAccountID, amount1 |-> a.Amount,
          accountID2 |-> a.FromAccountID, amount2 |-> 0 - a.Amount]

\* variant: the second statement of addMoney adjusting the account after its own
AddMoneyParams2Neighbour(m) == [ID |-> (m.accountID2 % NumAccounts) + 1, Amount |-> m.amount2]

\* variants: a statement of addMoney passing the other statement's amount
AddMoneyParams1Amount2(m) == [ID |-> m.accountID1, Amount |-> m.amount2]
AddMoneyParams2Amount1(m) == [ID |-> m.accountID2, Amount |-> m.amount1]

\* the two statements of addMoney
AddMoneyParams1(m) == [ID |-> m.accountID1, Amount |-> m.amount1]
AddMoneyParams2(m) == [ID |-> m.accountID2, Amount |-> m.amount2]

\* The row locks the next statement of c asks for.
Needs(c) ==
    CASE pc[c] = "CreateTransfer" ->
            {[row |-> r, mode |-> "KeyShare"] :
                r \in {CreateTransferParams(arg[c]).FromAccountID,
                       CreateTransferParams(arg[c]).ToAccountID}}
      [] pc[c] = "CreateEntry1" ->
            {[row |-> CreateEntryParams1(arg[c]).AccountID, mode |-> "KeyShare"]}
      [] pc[c] = "CreateEntry2" ->
            {[row |-> CreateEntryParams2(arg[c]).AccountID, mode |-> "KeyShare"]}
      [] pc[c] = "AddBalance1" ->
            {[row |-> AddMoneyParams1(AddMoneyArgs(arg[c])).ID, mode |-> "NoKeyUpdate"]}
      [] pc[c] = "AddBalance2" ->
            {[row |-> AddMoneyParams2(AddMoneyArgs(arg[c])).ID, mode |-> "NoKeyUpdate"]}
      [] OTHER -> {}

\* variant: a lock on a row taken on the whole table
WaitsForTable(c, d) ==
    /\ c /= d
    /\ \E n \in Needs(c), h \in Held(d) : LockConflict(n.mode, h.mode)

\* c waits for d: the next statement of c asks for a lock that conflicts with
\* one d holds.
WaitsFor(c, d) ==
    /\ c /= d
    /\ \E n \in Needs(c), h \in Held(d) : n.row = h.row /\ LockConflict(n.mode, h.mode)

\* the engine runs the statement of c once no other transaction blocks it
Granted(c) == \A d \in Calls : ~WaitsFor(c, d)

\* variant: the accounts assigned as in the first branch in both branches
AssignAccountsInOrder(a, r, account1, account2) ==
    [r EXCEPT !.FromAccount = account1, !.ToAccount = account2]

\* result.FromAccount, result.ToAccount = addMoney(...) or
\* result.ToAccount, result.FromAccount = addMoney(...)
AssignAccounts(a, r, account1, account2) ==
    IF FromFirst(a)
    THEN [r EXCEPT !.FromAccount = account1, !.ToAccount = account2]
    ELSE [r EXCEPT !.ToAccount = account1, !.FromAccount = account2]

\* variant: execTX never takes the rollback branch
WorkFailedNever(err) == FALSE

\* execTX: the function returned an error
WorkFailed(err) == err /= NoErr

\* variant: the error of the rollback returned in place of the work's
RollbackResultRbErr(err, rb) == rb

\* variant: the rollback error dropped
RollbackResultOnlyErr(err, rb) == err

\* execTX: what is returned after the rollback
RollbackResult(err, rb) == IF rb /= NoErr THEN Errorf(err, rb) ELSE err

Log(c, op) == issued' = [issued EXCEPT ![c] = Append(@, op)]

Start(c) ==
    /\ pc[c] = "idle"
    /\ \E a \in Requests(c) : arg' = [arg EXCEPT ![c] = a]
    /\ pc' = [pc EXCEPT ![c] = "BeginTx"]
    /\ UNCHANGED <<plan, queries, http, cancelled, accounts, transfers, entries, opening,
                   result, txn, workErr, rbErr, ret, issued>>

\* variant: the error of BeginTx not checked
BeginFailedNever(err) == FALSE

\* execTX: if err != nil after store.db.BeginTx
BeginFailed(err) == err /= NoErr

\* variant: the transaction begun without the caller's context
BeginTxContextBackground(done) == FALSE

\* store.db.BeginTx(ctx, nil): the transaction lives under the caller's
\* context, done or not
BeginTxContext(done) == done

\* store.db.BeginTx: a transaction is opened, or an error is returned (the
\* context's error when the context is already cancelled)
BeginTx(c) ==
    /\ pc[c] = "BeginTx"
    /\ Log(c, [op |-> "BeginTx", id |-> 0])
    /\ \E err \in (IF BeginTxContext(cancelled[c]) THEN {ErrCanceled} ELSE {NoErr, ErrBegin}) :
          /\ txn' = [txn EXCEPT ![c].status = IF err = NoErr THEN "open" ELSE @]
          /\ IF BeginFailed(err)
             THEN /\ ret' = [ret EXCEPT ![c] = err]
                  /\ pc' = [pc EXCEPT ![c] = "done"]
             ELSE /\ pc' = [pc EXCEPT ![c] = "CreateTransfer"]
                  /\ UNCHANGED ret
    /\ UNCHANGED <<plan, queries, http, cancelled, accounts, transfers, entries, opening,
                   arg, result, workErr, rbErr>>

\* variant: the work run again when it has returned an error
AfterWorkRetry(err) == IF WorkFailed(err) THEN "CreateTransfer" ELSE "Commit"

\* variant: the error branch returning without tx.Rollback()
AfterWorkNoRollback(err) == IF WorkFailed(err) THEN "done" ELSE "Commit"

\* execTX after fn(q): the rollback branch or the commit
AfterWork(err) == IF WorkFailed(err) THEN "Rollback" ELSE "Commit"

\* the function passed to execTX returns err
WorkReturns(c, err) ==
    /\ workErr' = [workErr EXCEPT ![c] = err]
    /\ pc' = [pc EXCEPT ![c] = AfterWork(err)]

\* variant: a failed statement returning nil
StmtErrNil(c) == NoErr

\* the error of a statement that fails for a reason of its own: the
\* context's error once the context is cancelled
StmtErr(c) == IF cancelled[c] THEN ErrCanceled ELSE ErrStmt

\* a statement runs once its locks are free and its context is live
Runs(c) == Granted(c) /\ ~cancelled[c]

\* the errors the next statement of c may return: a failure of the engine or
\* of the connection, and, when the statement runs and the engine refuses it,
\* the engine's error
StmtFailures(c, refused, err) ==
    {StmtErr(c)} \cup (IF refused /\ Runs(c) THEN {err} ELSE {})

CreateTransfer(c) ==
    /\ pc[c] = "CreateTransfer"
    /\ Log(c, [op |-> "CreateTransfer", id |-> 0])
    /\ LET p == CreateTransferParams(arg[c])
           row == [id |-> TransferID(c), from_account_id |-> p.FromAccountID,
                   to_account_id |-> p.ToAccountID, amount |-> p.Amount]
           refs == {p.FromAccountID, p.ToAccountID}
       IN \/ /\ Runs(c) /\ ForeignKeysHold(refs)
             /\ txn' = [txn EXCEPT ![c].transfers = @ \cup {row},
                                   ![c].keyShare = @ \cup refs]
             /\ result' = [result EXCEPT ![c].Transfer = row]
             /\ pc' = [pc EXCEPT ![c] = "CreateEntry1"]
             /\ UNCHANGED workErr
          \/ /\ \E err \in StmtFailures(c, ~ForeignKeysHold(refs), ErrForeignKey) :
                   WorkReturns(c, err)
             /\ UNCHANGED <<txn, result>>
    /\ UNCHANGED <<plan, queries, http, cancelled, accounts, transfers, entries, opening, arg, rbErr, ret>>

CreateEntry(c, at, p, next) ==
    /\ pc[c] = at
    /\ Log(c, [op |-> "CreateEntry", id |-> p.AccountID])
    /\ LET row == [id |-> EntryID(c, at), account_id |-> p.AccountID, amount |-> p.Amount]
       IN \/ /\ Runs(c) /\ ForeignKeysHold({p.AccountID})
             /\ txn' = [txn EXCEPT ![c].entries = @ \cup {row},
                                   ![c].keyShare = @ \cup {p.AccountID}]
             /\ result' = [result EXCEPT ![c] =
                              IF at = "CreateEntry1" THEN [@ EXCEPT !.FromEntry = row]
                                                     ELSE [@ EXCEPT !.ToEntry = row]]
             /\ pc' = [pc EXCEPT ![c] = next]
             /\ UNCHANGED workErr
          \/ /\ \E err \in StmtFailures(c, ~ForeignKeysHold({p.AccountID}), ErrForeignKey) :
                   WorkReturns(c, err)
             /\ UNCHANGED <<txn, result>>
    /\ UNCHANGED <<plan, queries, http, cancelled, accounts, transfers, entries, opening, arg, rbErr, ret>>

CreateEntry1(c) == CreateEntry(c, "CreateEntry1", CreateEntryParams1(arg[c]), "CreateEntry2")
CreateEntry2(c) == CreateEntry(c, "CreateEntry2", CreateEntryParams2(arg[c]), "AddBalance1")

\* addMoney, first statement: the engine grants the lock and runs the update
\* (ok), or the statement returns an error.  account1 is kept in the slot of
\* the result it is assigned to when addMoney returns.
AddBalance1(c, ok) ==
    /\ pc[c] = "AddBalance1"
    /\ LET p == AddMoneyParams1(AddMoneyArgs(arg[c]))
       IN /\ Log(c, [op |-> "AddAccountBalance", id |-> p.ID])
          /\ IF ok
             THEN /\ Runs(c) /\ p.ID \in DOMAIN accounts
                  /\ LET row == AddAccountBalanceRow(c, p)
                     IN /\ txn' = [txn EXCEPT ![c].rows = (p.ID :> row) @@ @]
                        /\ result' = [result EXCEPT ![c] =
                                         AssignAccounts(arg[c], @, row, ZeroAccount)]
                  /\ pc' = [pc EXCEPT ![c] = "AddBalance2"]
                  /\ UNCHANGED workErr
             ELSE /\ \E err \in StmtFailures(c, p.ID \notin DOMAIN accounts, ErrNoRows) :
                        WorkReturns(c, err)
                  /\ UNCHANGED <<txn, result>>
    /\ UNCHANGED <<plan, queries, http, cancelled, accounts, transfers, entries, opening, arg, rbErr, ret>>

\* addMoney, second statement, and its return into the result
AddBalance2(c, ok) ==
    /\ pc[c] = "AddBalance2"
    /\ LET m == AddMoneyArgs(arg[c])
           p == AddMoneyParams2(m)
           account1 == txn[c].rows[m.accountID1]
       IN /\ Log(c, [op |-> "AddAccountBalance", id |-> p.ID])
          /\ IF ok
             THEN /\ Runs(c) /\ p.ID \in DOMAIN accounts
                  /\ LET row == AddAccountBalanceRow(c, p)
                     IN /\ txn' = [txn EXCEPT ![c].rows = (p.ID :> row) @@ @]
                        /\ result' = [result EXCEPT ![c] =
                                         AssignAccounts(arg[c], @, account1, row)]
                  /\ WorkReturns(c, NoErr)
             ELSE /\ \E err \in StmtFailures(c, p.ID \notin DOMAIN accounts, ErrNoRows) :
                        WorkReturns(c, err)
                  /\ UNCHANGED <<txn, result>>
    /\ UNCHANGED <<plan, queries, http, cancelled, accounts, transfers, entries, opening, arg, rbErr, ret>>

\* tx.Rollback(): the engine drops the writes of the transaction either way; a
\* transaction that has already ended returns sql.ErrTxDone
Rollback(c) ==
    /\ pc[c] = "Rollback"
    /\ Log(c, [op |-> "Rollback", id |-> 0])
    /\ txn' = [txn EXCEPT ![c] = [NoTx EXCEPT !.status = "rolledback"]]
    /\ \E rb \in (IF txn[c].status = "open" THEN {NoErr, ErrRollback} ELSE {ErrTxDone}) :
          /\ rbErr' = [rbErr EXCEPT ![c] = rb]
          /\ ret' = [ret EXCEPT ![c] = RollbackResult(workErr[c], rb)]
    /\ pc' = [pc EXCEPT ![c] = "done"]
    /\ UNCHANGED <<plan, queries, http, cancelled, accounts, transfers, entries, opening,
                   arg, result, workErr>>

\* variant: the committed rows replaced by the rows of the transaction
InsertedReplacing(table, rows) == rows

\* INSERT INTO ... at commit: the rows of the transaction join the table
Inserted(table, rows) == table \cup rows

\* variant: the error of tx.Commit() dropped
CommitResultNil(err) == NoErr

\* return tx.Commit()
CommitResult(err) == err

\* tx.Commit(): the writes become the committed state, or the commit fails (as
\* it does on a transaction its context has already ended)
Commit(c) ==
    /\ pc[c] = "Commit"
    /\ Log(c, [op |-> "Commit", id |-> 0])
    /\ \/ /\ txn[c].status = "open"
          /\ accounts' = [id \in DOMAIN accounts |->
                             IF id \in Updated(c) THEN txn[c].rows[id] ELSE accounts[id]]
          /\ transfers' = Inserted(transfers, txn[c].transfers)
          /\ entries' = Inserted(entries, txn[c].entries)
          /\ txn' = [txn EXCEPT ![c] = [NoTx EXCEPT !.status = "committed"]]
          /\ ret' = [ret EXCEPT ![c] = CommitResult(NoErr)]
       \/ /\ txn' = [txn EXCEPT ![c] = [NoTx EXCEPT !.status = "rolledback"]]
          /\ \E err \in (IF txn[c].status = "open" THEN {ErrCommit} ELSE {ErrTxDone}) :
                ret' = [ret EXCEPT ![c] = CommitResult(err)]
          /\ UNCHANGED <<accounts, transfers, entries>>
    /\ pc' = [pc EXCEPT ![c] = "done"]
    /\ UNCHANGED <<plan, queries, http, cancelled, opening, arg, result, workErr, rbErr>>

\* The context of a running call is cancelled: the transaction begun under it
\* is rolled back by database/sql and its locks are released.
Cancel(c) ==
    /\ pc[c] \notin {"idle", "done"}
    /\ ~cancelled[c]
    /\ cancelled' = [cancelled EXCEPT ![c] = TRUE]
    /\ txn' = [txn EXCEPT ![c] = IF BeginTxContext(TRUE) /\ @.status = "open"
                                  THEN [NoTx EXCEPT !.status = "rolledback"]
                                  ELSE @]
    /\ UNCHANGED <<plan, queries, http, accounts, transfers, entries, opening,
                   pc, arg, result, workErr, rbErr, ret, issued>>

Step(c) ==
    \/ BeginTx(c)
    \/ CreateTransfer(c)
    \/ CreateEntry1(c)
    \/ CreateEntry2(c)
    \/ AddBalance1(c, TRUE)
    \/ AddBalance2(c, TRUE)
    \/ AddBalance1(c, FALSE)
    \/ AddBalance2(c, FALSE)
    \/ Rollback(c)
    \/ Commit(c)

\* Account 1 is opened as createAccount opens it (balance 0), the others as
\* CreateRandomAccount opens them (a random balance).
InitLedger ==
    /\ opening = [id \in AccountIDs |-> (id - 1) * RandomMoney]
    /\ accounts = [id \in AccountIDs |->
                      [id |-> id, owner |-> Owner(id), balance |-> opening[id],
                       currency |-> Currency(id), created_at |-> CreatedAt(id)]]
    /\ transfers = {}
    /\ entries = {}

InitCalls ==
    /\ pc = [c \in Calls |-> "idle"]
    /\ arg = [c \in Calls |-> ZeroArg]
    /\ result = [c \in Calls |-> ZeroResult]
    /\ txn = [c \in Calls |-> NoTx]
    /\ workErr = [c \in Calls |-> NoErr]
    /\ rbErr = [c \in Calls |-> NoErr]
    /\ ret = [c \in Calls |-> NoErr]
    /\ issued = [c \in Calls |-> <<>>]
    /\ cancelled = [c \in Calls |-> FALSE]
    /\ queries = <<>>
    /\ http = [r \in {c \in Calls : plan[c].kind \in {"api", "client"}} |-> NewRequest]

\* Two concurrent callers, each submitting any request with a positive amount.
Init ==
    /\ plan = [c \in {1, 2} |-> [kind |-> "valid"]]
    /\ InitLedger
    /\ InitCalls

Next == \E c \in Calls : Start(c) \/ Step(c)

Spec == Init /\ [][Next]_vars

\* One caller of Store.TransferTx passing any TransferTxParams.
InitDirect ==
    /\ plan = [c \in {1} |-> [kind |-> "any"]]
    /\ InitLedger
    /\ InitCalls

SpecDirect == InitDirect /\ [][Next]_vars

\* Three concurrent callers, caller c transferring out of account c to any
\* account: chains, rings, opposite pairs and shared destinations.
InitChain ==
    /\ plan = [c \in {1, 2, 3} |-> [kind |-> "from", from |-> c]]
    /\ InitLedger
    /\ InitCalls

SpecChain == InitChain /\ [][Next]_vars

\* Two concurrent callers, caller c transferring out of account c, whose
\* contexts may be cancelled at any point of the call.
InitCancel ==
    /\ plan = [c \in {1, 2} |-> [kind |-> "from", from |-> c]]
    /\ InitLedger
    /\ InitCalls

\* One caller submitting a request with a positive amount and repeating the
\* same call each time it has failed, up to MaxAttempts times.
InitRetry ==
    /\ plan = [c \in 1..MaxAttempts |->
                  IF c = 1 THEN [kind |-> "valid"] ELSE [kind |-> "retry", of |-> c - 1]]
    /\ InitLedger
    /\ InitCalls

SpecRetry == InitRetry /\ [][Next]_vars

\* Two concurrent callers: one transferring out of account 1, one submitting
\* requests that name an account that does not exist.
InitMissing ==
    /\ plan = [c \in {1, 2} |-> IF c = 1 THEN [kind |-> "from", from |-> 1]
                                        ELSE [kind |-> "missing"]]
    /\ InitLedger
    /\ InitCalls

SpecMissing == InitMissing /\ [][Next]_vars

\* the accounts of two disjoint pairs: accounts 1 and 2, and the last account
\* together with one more, opened like the others
PairOne == {1, 2}
PairTwo == {NumAccounts, NumAccounts + 1}

\* Two concurrent callers, one transferring within the first pair and one
\* within the second, in either direction.
InitDisjoint ==
    /\ plan = [c \in {1, 2} |-> [kind |-> "within", ids |-> IF c = 1 THEN PairOne ELSE PairTwo]]
    /\ opening = [id \in 1..(NumAccounts + 1) |-> (id - 1) * RandomMoney]
    /\ accounts = [id \in 1..(NumAccounts + 1) |->
                      [id |-> id, owner |-> Owner(id), balance |-> opening[id],
                       currency |-> Currency(id), created_at |-> CreatedAt(id)]]
    /\ transfers = {}
    /\ entries = {}
    /\ InitCalls

SpecDisjoint == InitDisjoint /\ [][Next]_vars

NextCancel ==
    \/ Next
    \/ \E c \in Calls : Cancel(c)

SpecCancel == InitCancel /\ [][NextCancel]_vars

\* NumAlt concurrent callers alternating direction between accounts 1 and 2.
AltArg(c) ==
    [FromAccountID |-> IF c % 2 = 1 THEN 1 ELSE 2,
     ToAccountID |-> IF c % 2 = 1 THEN 2 ELSE 1,
     Amount |-> ((c - 1) % MaxAmount) + 1]

InitAlt ==
    /\ plan = [c \in 1..NumAlt |-> [kind |-> "fixed", arg |-> AltArg(c)]]
    /\ InitLedger
    /\ InitCalls

\* What the engine and the Go scheduler do for a call sooner or later: run its
\* next statement once its locks are free, and return.  Statement errors are
\* faults, which nothing obliges to happen.
Respond(c) ==
    \/ Start(c)
    \/ BeginTx(c)
    \/ CreateTransfer(c)
    \/ CreateEntry1(c)
    \/ CreateEntry2(c)
    \/ AddBalance1(c, TRUE)
    \/ AddBalance2(c, TRUE)
    \/ Rollback(c)
    \/ Commit(c)

SpecAlt == InitAlt /\ [][Next]_vars /\ \A c \in 1..NumAlt : WF_vars(Respond(c))

(* ---------------------------------------------------------------------- *)
(* The query layer called outside a transaction (each statement commits)   *)
(* ---------------------------------------------------------------------- *)
MaxCalls == 3             \* calls of the query layer in one run

\* variant: a read that counts itself into the balance it returns
GetAccountCounting(id) ==
    IF id \in DOMAIN accounts
    THEN [account |-> [accounts[id] EXCEPT !.balance = @ + Len(queries)], err |-> NoErr]
    ELSE [account |-> ZeroAccount, err |-> ErrNoRows]

\* SELECT * FROM accounts WHERE id = $1 LIMIT 1
GetAccount(id) ==
    IF id \in DOMAIN accounts
    THEN [account |-> accounts[id], err |-> NoErr]
    ELSE [account |-> ZeroAccount, err |-> ErrNoRows]

\* variant: the row written anew from the parameters of the update
UpdateAccountRowRebuilt(row, balance) ==
    [ZeroAccount EXCEPT !.id = row.id, !.balance = balance]

\* UPDATE accounts SET balance = $2 WHERE id = $1 RETURNING *
UpdateAccountRow(row, balance) == [row EXCEPT !.balance = balance]

\* an entry or a transfer record references the account
Referenced(id) ==
    \/ \E e \in entries : e.account_id = id
    \/ \E t \in transfers : t.from_account_id = id \/ t.to_account_id = id

\* variant: the row kept by the delete
DeletedFromKeeping(table, id) == table

\* DELETE FROM accounts WHERE id = $1
DeletedFrom(table, id) == [i \in DOMAIN table \ {id} |-> table[i]]

\* the call and what it returned join the history of calls
Answered(op, id, account, err) ==
    queries' = Append(queries, [op |-> op, id |-> id, account |-> account, err |-> err])

QueryGetAccount(id) ==
    /\ Len(queries) < MaxCalls
    /\ \/ Answered("GetAccount", id, GetAccount(id).account, GetAccount(id).err)
       \/ Answered("GetAccount", id, ZeroAccount, ErrStmt)
    /\ UNCHANGED <<plan, http, accounts, transfers, entries, opening,
                   pc, arg, result, txn, workErr, rbErr, ret, issued, cancelled>>

\* a statement that writes one row of accounts and returns it
QueryWrite(op, id, row) ==
    /\ Len(queries) < MaxCalls
    /\ IF id \in DOMAIN accounts
       THEN /\ accounts' = [accounts EXCEPT ![id] = row]
            /\ Answered(op, id, row, NoErr)
       ELSE /\ Answered(op, id, ZeroAccount, ErrNoRows)
            /\ UNCHANGED accounts
    /\ UNCHANGED <<plan, http, transfers, entries, opening,
                   pc, arg, result, txn, workErr, rbErr, ret, issued, cancelled>>

QueryUpdateAccount(id, balance) ==
    QueryWrite("UpdateAccount", id,
               IF id \in DOMAIN accounts THEN UpdateAccountRow(accounts[id], balance)
                                         ELSE ZeroAccount)

\* AddAccountBalance as addMoney calls it, on the committed row
QueryAddAccountBalance(p) ==
    QueryWrite("AddAccountBalance", p.ID,
               IF p.ID \in DOMAIN accounts
               THEN [accounts[p.ID] EXCEPT !.balance = @ + p.Amount]
               ELSE ZeroAccount)

QueryDeleteAccount(id) ==
    /\ Len(queries) < MaxCalls
    /\ IF id \in DOMAIN accounts /\ ~Referenced(id)
       THEN /\ accounts' = DeletedFrom(accounts, id)
            /\ Answered("DeleteAccount", id, ZeroAccount, NoErr)
       ELSE /\ Answered("DeleteAccount", id, ZeroAccount,
                        IF id \in DOMAIN accounts THEN ErrForeignKey ELSE ErrNoRows)
            /\ UNCHANGED accounts
    /\ UNCHANGED <<plan, http, transfers, entries, opening,
                   pc, arg, result, txn, workErr, rbErr, ret, issued, cancelled>>

\* One client of the query layer making up to MaxCalls calls on the accounts
\* CreateRandomAccount created, and no transfer.
InitQueries ==
    /\ plan = <<>>
    /\ InitLedger
    /\ InitCalls

NextQueries ==
    \E id \in AccountIDs :
        \/ QueryGetAccount(id)
        \/ QueryUpdateAccount(id, RandomMoney)
        \/ \E amount \in {0 - 1, MaxAmount} :
              QueryAddAccountBalance(AddMoneyParams1([accountID1 |-> id, amount1 |-> amount]))
        \/ QueryDeleteAccount(id)

SpecQueries == InitQueries /\ [][NextQueries]_vars

(* ---------------------------------------------------------------------- *)
(* The HTTP API: auth middleware and the handlers behind it                 *)
(* ---------------------------------------------------------------------- *)
\* A Go string is modelled by the sequence of its characters.
Sp == <<" ">>
Tab == <<"\t">>
Bearer == <<"b", "e", "a", "r", "e", "r">>
BearerTitle == <<"B", "e", "a", "r", "e", "r">>
BearerUpper == <<"B", "E", "A", "R", "E", "R">>
Basic == <<"b", "a", "s", "i", "c">>

\* the usernames: every account has its own owner
Users == {Owner(id) : id \in AccountIDs}

Digits == <<"1", "2", "3", "4", "5", "6", "7", "8", "9">>

\* access tokens: one the maker issued to user u and still accepts, one it
\* issued that has expired, and a string it never issued
TokenOf(u) == <<"v", Digits[u]>>
ExpiredTokenOf(u) == <<"x", Digits[u]>>
Garbage == <<"?">>

ErrInvalidToken == <<"token is invalid">>
ErrExpiredToken == <<"token has expired">>

\* tokenMaker.VerifyToken: the payload of the token, or an error
VerifyToken(t) ==
    IF \E u \in Users : t = TokenOf(u)
    THEN [payload |-> CHOOSE u \in Users : t = TokenOf(u), err |-> NoErr]
    ELSE IF \E u \in Users : t = ExpiredTokenOf(u)
         THEN [payload |-> 0, err |-> ErrExpiredToken]
         ELSE [payload |-> 0, err |-> ErrInvalidToken]

IsSpace(ch) == ch \in {" ", "\t", "\n", "\r"}

RECURSIVE FieldsFrom(_, _, _)
FieldsFrom(s, cur, acc) ==
    IF s = <<>>
    THEN IF cur = <<>> THEN acc ELSE Append(acc, cur)
    ELSE IF IsSpace(Head(s))
         THEN FieldsFrom(Tail(s), <<>>, IF cur = <<>> THEN acc ELSE Append(acc, cur))
         ELSE FieldsFrom(Tail(s), Append(cur, Head(s)), acc)

\* strings.Fields: the maximal runs of characters that are not white space
Fields(s) == FieldsFrom(s, <<>>, <<>>)

LowerCase ==
    [ch \in {"A", "B", "C", "E", "I", "R", "S"} |->
        CASE ch = "A" -> "a" [] ch = "B" -> "b" [] ch = "C" -> "c" [] ch = "E" -> "e"
          [] ch = "I" -> "i" [] ch = "R" -> "r" [] ch = "S" -> "s"]

\* strings.ToLower
ToLower(s) == [i \in 1..Len(s) |-> IF s[i] \in DOMAIN LowerCase THEN LowerCase[s[i]] ELSE s[i]]

\* the Authorization headers of the requests: none, and for a user u headers
\* of one field, of another scheme, with too few or extra fields, with an
\* expired or unknown token, and well-formed ones in several spellings
Headers ==
    {<<>>, Bearer, Basic \o Sp \o TokenOf(1), TokenOf(1) \o Sp \o Bearer,
     Bearer \o Sp \o ExpiredTokenOf(1), BearerTitle \o Sp \o Garbage,
     Bearer \o TokenOf(1)}
    \cup {BearerTitle \o Sp \o TokenOf(u) : u \in Users}
    \cup {Sp \o BearerUpper \o Tab \o Sp \o TokenOf(u) \o Sp \o Garbage : u \in Users}

\* variant: the header split at the first space only
HeaderFieldsAtSpace(h) ==
    IF \E i \in 1..Len(h) : h[i] = " "
    THEN LET i == CHOOSE k \in 1..Len(h) : h[k] = " " /\ \A j \in 1..(k - 1) : h[j] /= " "
         IN <<SubSeq(h, 1, i - 1), SubSeq(h, i + 1, Len(h))>>
    ELSE <<h>>

\* fields := strings.Fields(authorizationHeader)
HeaderFields(h) == Fields(h)

\* variant: the scheme compared as written
AuthTypeOKExact(authType) == authType = Bearer

\* strings.ToLower(authType) == "bearer"
AuthTypeOK(authType) == ToLower(authType) = Bearer

\* What authMiddlewareFiber does with a header: the status it answers itself,
\* or 0 and the payload it stores before calling the next handler.
AuthMiddleware(h) ==
    IF Len(h) = 0 THEN [status |-> 401, payload |-> 0, next |-> FALSE]
    ELSE LET fields == HeaderFields(h)
         IN IF Len(fields) < 2 THEN [status |-> 401, payload |-> 0, next |-> FALSE]
            ELSE IF ~AuthTypeOK(fields[1]) THEN [status |-> 401, payload |-> 0, next |-> FALSE]
            ELSE IF VerifyToken(fields[2]).err /= NoErr
                 THEN [status |-> 401, payload |-> 0, next |-> FALSE]
                 ELSE [status |-> 0, payload |-> VerifyToken(fields[2]).payload, next |-> TRUE]

\* util.IsSupportedCurrency
SupportedCurrencies == {"USD", "EUR", "CAD"}
IsSupportedCurrency(currency) == currency \in SupportedCurrencies

\* what the requests ask for: the currencies of the accounts, and one that is
\* not supported
Currencies == {"USD", "EUR", "XXX"}

\* bodies of POST /accounts
AccountBodies ==
    {[ok |-> TRUE, FromAccountID |-> 0, ToAccountID |-> 0, Amount |-> 0, Currency |-> cur] :
        cur \in Currencies \cup {""}} \cup {Malformed}

\* bodies of POST /transfers: the accounts and one id that no account has
TransferBodies ==
    {[ok |-> TRUE, FromAccountID |-> f, ToAccountID |-> t, Amount |-> m, Currency |-> cur] :
        f \in AccountIDs \cup {NumAccounts + 1}, t \in AccountIDs \cup {NumAccounts + 1},
        m \in Amounts, cur \in Currencies} \cup {Malformed}

\* path parameters of GET and DELETE /accounts/:id: the accounts, an id that
\* no account has, 0, and a parameter c.ParamsParser rejects
PathParams == {[ok |-> TRUE, ID |-> id] : id \in 0..MissingID} \cup {[ok |-> FALSE, ID |-> 0]}

\* the routes behind the middleware, by the name of their handler
Routes == {"createAccount", "getAccount", "deleteAccount", "createTransfer"}

\* what a request on a route carries
BodiesOf(route) ==
    CASE route = "createAccount" -> AccountBodies
      [] route = "createTransfer" -> TransferBodies
      [] OTHER -> PathParams

\* the routes request r may take and the headers it may carry: anything, or
\* for the client of a user one route with a token of that user
RoutesOf(r) == IF plan[r].kind = "client" THEN {plan[r].route} ELSE Routes
HeadersOf(r) ==
    IF plan[r].kind = "client" THEN {BearerTitle \o Sp \o TokenOf(plan[r].user)} ELSE Headers

\* A request arrives on one of the routes behind the middleware.
Arrive(r) ==
    /\ http[r].pc = "new"
    /\ \E h \in HeadersOf(r) : \E route \in RoutesOf(r) : \E b \in BodiesOf(route) :
          http' = [http EXCEPT ![r] = [@ EXCEPT !.pc = "middleware", !.header = h,
                                               !.handler = route, !.body = b]]
    /\ UNCHANGED <<plan, queries, accounts, transfers, entries, opening,
                   pc, arg, result, txn, workErr, rbErr, ret, issued, cancelled>>

\* the handler answers
Reply(h, status, reply) ==
    [h EXCEPT !.pc = "done", !.status = status, !.reply = reply, !.responses = @ + 1]

\* authMiddlewareFiber: answers 401, or stores the payload and calls the handler
Middleware(r) ==
    /\ http[r].pc = "middleware"
    /\ LET m == AuthMiddleware(http[r].header)
       IN http' = [http EXCEPT ![r] =
                      IF m.next THEN [@ EXCEPT !.pc = "handler", !.payload = m.payload,
                                                         !.next = TRUE]
                                ELSE Reply(@, m.status, <<>>)]
    /\ UNCHANGED <<plan, queries, accounts, transfers, entries, opening,
                   pc, arg, result, txn, workErr, rbErr, ret, issued, cancelled>>

\* the handler calls a method of the store, which returns err
Called(h, op, a, err) == [h EXCEPT !.store = Append(@, [op |-> op, arg |-> a, err |-> err])]

\* variant: the account opened with a balance
CreateAccountArgFunded(username, req) ==
    [Owner |-> username, Currency |-> req.Currency, Balance |-> RandomMoney]

\* arg := db.CreateAccountParams{Owner: username, Currency: req.Currency, Balance: 0}
CreateAccountArg(username, req) == [Owner |-> username, Currency |-> req.Currency, Balance |-> 0]

ErrUniqueViolation == <<"pq: unique_violation">>

\* the id the next account gets
NewAccountID == Cardinality(DOMAIN accounts) + 1

\* INSERT INTO accounts ... RETURNING *: the new row, or the violation of the
\* one-account-per-owner-and-currency constraint
CreateAccount(a) ==
    IF \E id \in DOMAIN accounts :
          accounts[id].owner = a.Owner /\ accounts[id].currency = a.Currency
    THEN [account |-> ZeroAccount, err |-> ErrUniqueViolation]
    ELSE [account |-> [id |-> NewAccountID, owner |-> a.Owner, balance |-> a.Balance,
                       currency |-> a.Currency, created_at |-> CreatedAt(NewAccountID)],
          err |-> NoErr]

\* what server.store.CreateAccount may return: the answer of the engine to the
\* insert, a foreign-key violation when the owner has no row in users, or a
\* failure of the engine
CreateAccountResults(a) ==
    {CreateAccount(a), [account |-> ZeroAccount, err |-> ErrForeignKey],
     [account |-> ZeroAccount, err |-> ErrStmt]}

\* variant: every error of the store answered alike
CreateAccountStatusPlain(err) == IF err = NoErr THEN 200 ELSE 500

\* the status createAccount answers for the error of the store
CreateAccountStatus(err) ==
    IF err = NoErr THEN 200
    ELSE IF err \in {ErrForeignKey, ErrUniqueViolation} THEN 403 ELSE 500

\* Server.createAccount
CreateAccountHandler(r) ==
    /\ http[r].pc = "handler" /\ http[r].handler = "createAccount"
    /\ LET req == http[r].body
       IN IF ~req.ok \/ ~IsSupportedCurrency(req.Currency)
          THEN /\ http' = [http EXCEPT ![r] = Reply(@, 400, <<>>)]
               /\ UNCHANGED <<accounts, opening>>
          ELSE IF http[r].payload = 0
          THEN /\ http' = [http EXCEPT ![r] = Reply(@, 401, <<>>)]
               /\ UNCHANGED <<accounts, opening>>
          ELSE LET a == CreateAccountArg(http[r].payload, req)
               IN \E res \in CreateAccountResults(a) :
                     /\ http' = [http EXCEPT ![r] =
                                    Reply(Called(@, "CreateAccount", a, res.err),
                                          CreateAccountStatus(res.err),
                                          IF res.err = NoErr THEN <<res.account>> ELSE <<>>)]
                     /\ IF res.err = NoErr
                        THEN /\ accounts' = (res.account.id :> res.account) @@ accounts
                             /\ opening' = (res.account.id :> res.account.balance) @@ opening
                        ELSE UNCHANGED <<accounts, opening>>
    /\ UNCHANGED <<plan, queries, transfers, entries,
                   pc, arg, result, txn, workErr, rbErr, ret, issued, cancelled>>

\* validAccount: the status it answers, or 0 when the account is valid
ValidAccountStatus(res, currency) ==
    IF res.err /= NoErr
    THEN IF res.err = ErrNoRows THEN 404 ELSE 500
    ELSE IF res.account.currency /= currency THEN 400 ELSE 0

\* what server.store.GetAccount may return: the answer of the engine, or a
\* failure of the engine
GetAccountResults(id) == {GetAccount(id), [account |-> ZeroAccount, err |-> ErrStmt]}

\* variant: the ownership check left out
OwnsAlways(account, username) == TRUE

\* fromAccount.Owner == username
Owns(account, username) == account.owner = username

\* variant: only a negative amount refused
AmountRefusedNegative(req) == req.Amount < 0

\* if req.Amount <= 0
AmountRefused(req) == req.Amount <= 0

\* arg := db.TransferTxParams{...}
TransferArg(req) ==
    [FromAccountID |-> req.FromAccountID, ToAccountID |-> req.ToAccountID, Amount |-> req.Amount]

\* Server.createTransfer up to the check of the source account's owner
TransferFrom(r) ==
    /\ http[r].pc = "handler" /\ http[r].handler = "createTransfer"
    /\ LET req == http[r].body
       IN IF ~req.ok \/ AmountRefused(req) \/ ~IsSupportedCurrency(req.Currency)
          THEN http' = [http EXCEPT ![r] = Reply(@, 400, <<>>)]
          ELSE \E res \in GetAccountResults(req.FromAccountID) :
                  LET h == Called(http[r], "GetAccount", req.FromAccountID, res.err)
                      status == ValidAccountStatus(res, req.Currency)
                  IN http' = [http EXCEPT ![r] =
                        IF status /= 0 THEN Reply(h, status, <<>>)
                        ELSE IF h.payload = 0 THEN Reply(h, 401, <<>>)
                        ELSE IF ~Owns(res.account, h.payload) THEN Reply(h, 401, <<>>)
                        ELSE [h EXCEPT !.pc = "validTo", !.fromAccount = res.account]]
    /\ UNCHANGED <<plan, queries, accounts, transfers, entries, opening,
                   pc, arg, result, txn, workErr, rbErr, ret, issued, cancelled>>

\* Server.createTransfer: the check of the destination account and the call
\* of server.store.TransferTx
TransferTo(r) ==
    /\ http[r].pc = "validTo"
    /\ LET req == http[r].body
       IN \E res \in GetAccountResults(req.ToAccountID) :
             LET h == Called(http[r], "GetAccount", req.ToAccountID, res.err)
                 status == ValidAccountStatus(res, req.Currency)
             IN IF status /= 0
                THEN /\ http' = [http EXCEPT ![r] = Reply(h, status, <<>>)]
                     /\ UNCHANGED <<pc, arg>>
                ELSE /\ http' = [http EXCEPT ![r] =
                                    [Called(h, "TransferTx", TransferArg(req), NoErr)
                                        EXCEPT !.pc = "TransferTx"]]
                     /\ arg' = [arg EXCEPT ![r] = TransferArg(req)]
                     /\ pc' = [pc EXCEPT ![r] = "BeginTx"]
    /\ UNCHANGED <<plan, queries, accounts, transfers, entries, opening,
                   result, txn, workErr, rbErr, ret, issued, cancelled>>

\* Server.createTransfer after TransferTx has returned
TransferReply(r) ==
    /\ http[r].pc = "TransferTx"
    /\ pc[r] = "done"
    /\ http' = [http EXCEPT ![r] =
                   IF ret[r] /= NoErr THEN Reply(@, 500, <<>>)
                                      ELSE Reply(@, 200, <<result[r]>>)]
    /\ UNCHANGED <<plan, queries, accounts, transfers, entries, opening,
                   pc, arg, result, txn, workErr, rbErr, ret, issued, cancelled>>

\* variant: the owner of the account not compared
OwnerIsAnyone(account, username) == TRUE

\* account.Owner == payload.Username
OwnerIs(account, username) == account.owner = username

\* getAccount and deleteAccount up to the ownership check: the status they
\* answer, or 0 when the caller owns the account
AccountAccessStatus(h, res) ==
    IF res.err /= NoErr THEN (IF res.err = ErrNoRows THEN 404 ELSE 500)
    ELSE IF h.payload = 0 THEN 401
    ELSE IF ~OwnerIs(res.account, h.payload) THEN 401
    ELSE 0

\* Server.getAccount
GetAccountHandler(r) ==
    /\ http[r].pc = "handler" /\ http[r].handler = "getAccount"
    /\ LET req == http[r].body
       IN IF ~req.ok \/ req.ID <= 0
          THEN http' = [http EXCEPT ![r] = Reply(@, 400, <<>>)]
          ELSE \E res \in GetAccountResults(req.ID) :
                  LET h == Called(http[r], "GetAccount", req.ID, res.err)
                      status == AccountAccessStatus(h, res)
                  IN http' = [http EXCEPT ![r] =
                                 IF status /= 0 THEN Reply(h, status, <<>>)
                                                ELSE Reply(h, 200, <<res.account>>)]
    /\ UNCHANGED <<plan, queries, accounts, transfers, entries, opening,
                   pc, arg, result, txn, workErr, rbErr, ret, issued, cancelled>>

\* Server.deleteAccount up to the ownership check
DeleteAccountLookup(r) ==
    /\ http[r].pc = "handler" /\ http[r].handler = "deleteAccount"
    /\ LET req == http[r].body
       IN IF ~req.ok \/ req.ID <= 0
          THEN http' = [http EXCEPT ![r] = Reply(@, 400, <<>>)]
          ELSE \E res \in GetAccountResults(req.ID) :
                  LET h == Called(http[r], "GetAccount", req.ID, res.err)
                      status == AccountAccessStatus(h, res)
                  IN http' = [http EXCEPT ![r] =
                                 IF status /= 0 THEN Reply(h, status, <<>>)
                                 ELSE [h EXCEPT !.pc = "DeleteAccount", !.fromAccount = res.account]]
    /\ UNCHANGED <<plan, queries, accounts, transfers, entries, opening,
                   pc, arg, result, txn, workErr, rbErr, ret, issued, cancelled>>

\* variant: a delete that does not wait for the locks on the row
DeleteWaitsNever(id) == FALSE

\* DELETE FROM accounts WHERE id = $1 locks the row: it waits while an open
\* transaction holds a lock on it
DeleteWaits(id) == \E c \in Calls : \E l \in Held(c) : l.row = id

\* the error of the delete once it runs: none, no such row, or the foreign
\* key of an entry or a transfer that references the row
DeleteAccountErr(id) ==
    IF id \notin DOMAIN accounts THEN ErrNoRows
    ELSE IF Referenced(id) THEN ErrForeignKey
    ELSE NoErr

\* Server.deleteAccount: the call of server.store.DeleteAccount and the answer
DeleteAccountHandler(r) ==
    /\ http[r].pc = "DeleteAccount"
    /\ LET id == http[r].body.ID
       IN \/ /\ ~DeleteWaits(id)
             /\ LET err == DeleteAccountErr(id)
                IN /\ accounts' = IF err = NoErr THEN DeletedFrom(accounts, id) ELSE accounts
                   /\ http' = [http EXCEPT ![r] =
                                  IF err /= NoErr
                                  THEN Reply(Called(@, "DeleteAccount", id, err), 500, <<>>)
                                  ELSE Reply(Called(@, "DeleteAccount", id, err), 200,
                                             <<[accountID |-> id]>>)]
          \/ /\ UNCHANGED accounts
             /\ http' = [http EXCEPT ![r] =
                            Reply(Called(@, "DeleteAccount", id, ErrStmt), 500, <<>>)]
    /\ UNCHANGED <<plan, queries, transfers, entries, opening,
                   pc, arg, result, txn, workErr, rbErr, ret, issued, cancelled>>

\* the requests of a run: one, whose call of TransferTx is call 1 of the store
HTTPRequests == {1}

\* One request arrives at the server over the accounts CreateRandomAccount
\* created.
InitAPI ==
    /\ plan = [c \in HTTPRequests |-> [kind |-> "api"]]
    /\ InitLedger
    /\ InitCalls

NextAPI ==
    \E r \in HTTPRequests :
        \/ Arrive(r)
        \/ Middleware(r)
        \/ CreateAccountHandler(r)
        \/ GetAccountHandler(r)
        \/ DeleteAccountLookup(r)
        \/ DeleteAccountHandler(r)
        \/ TransferFrom(r)
        \/ TransferTo(r)
        \/ Step(r)
        \/ TransferReply(r)

SpecAPI == InitAPI /\ [][NextAPI]_vars

\* the requests of a race: a POST /transfers, whose call of TransferTx is call
\* 1 of the store, and a DELETE /accounts/:id
RaceRequests == {1, 2}

\* Two authenticated users, the same or not, send the two requests at once.
InitRace ==
    /\ plan \in {[r \in RaceRequests |->
                     IF r = 1 THEN [kind |-> "client", route |-> "createTransfer", user |-> u]
                              ELSE [kind |-> "client", route |-> "deleteAccount", user |-> v]] :
                 u \in Users, v \in Users}
    /\ InitLedger
    /\ InitCalls

NextRace ==
    \E r \in RaceRequests :
        \/ Arrive(r)
        \/ Middleware(r)
        \/ DeleteAccountLookup(r)
        \/ DeleteAccountHandler(r)
        \/ TransferFrom(r)
        \/ TransferTo(r)
        \/ Step(r)
        \/ TransferReply(r)

SpecRace == InitRace /\ [][NextRace]_vars

(* ---------------------------------------------------------------------- *)
(* Ledger arithmetic used by the properties                                *)
(* ---------------------------------------------------------------------- *)
RECURSIVE SumEntries(_, _)
SumEntries(S, id) ==
    IF S = {} THEN 0
    ELSE LET e == CHOOSE x \in S : TRUE
         IN (IF e.account_id = id THEN e.amount ELSE 0) + SumEntries(S \ {e}, id)

\* what a transfer of amount m from f to t adds to the balance of account id
Delta(f, t, m, id) == (IF t = id THEN m ELSE 0) - (IF f = id THEN m ELSE 0)

RECURSIVE SumTransfers(_, _)
SumTransfers(S, id) ==
    IF S = {} THEN 0
    ELSE LET t == CHOOSE x \in S : TRUE
         IN Delta(t.from_account_id, t.to_account_id, t.amount, id) + SumTransfers(S \ {t}, id)

RECURSIVE SumCalls(_, _)
SumCalls(S, id) ==
    IF S = {} THEN 0
    ELSE LET c == CHOOSE x \in S : TRUE
         IN Delta(arg[c].FromAccountID, arg[c].ToAccountID, arg[c].Amount, id)
            + SumCalls(S \ {c}, id)

Committed(c) == txn[c].status = "committed"
Done(c) == pc[c] = "done"
Succeeded(c) == Done(c) /\ ret[c] = NoErr /\ Committed(c)
Distinct(c) == arg[c].FromAccountID /= arg[c].ToAccountID
CommitsNow(c) == txn[c].status = "open" /\ txn'[c].status = "committed"

(* ---------------------------------------------------------------------- *)
(* C1  Atomicity                                                           *)
(* ---------------------------------------------------------------------- *)
\* C1: in every committed state, each call's transfer record, debit entry and
\* credit entry are all present (when its transaction committed) or all absent
\* (otherwise), the committed tables hold nothing else, and the balances carry
\* exactly the adjustments of the transfer records that are present, whichever
\* step failed.
Atomicity ==
    /\ \A c \in Calls :
          /\ Committed(c) =>
                /\ result[c].Transfer \in transfers
                /\ result[c].FromEntry \in entries
                /\ result[c].ToEntry \in entries
          /\ ~Committed(c) =>
                /\ result[c].Transfer \notin transfers
                /\ result[c].FromEntry \notin entries
                /\ result[c].ToEntry \notin entries
    /\ transfers = {result[c].Transfer : c \in {d \in Calls : Committed(d)}}
    /\ entries = UNION {{result[c].FromEntry, result[c].ToEntry} : c \in {d \in Calls : Committed(d)}}
    /\ \A id \in AccountIDs :
          accounts[id].balance = opening[id] + SumTransfers(transfers, id)

\* a call failed after its third write and was rolled back while another committed
AtomicityWitness ==
    \E c, d \in Calls :
        /\ Done(c) /\ ~Committed(c) /\ Len(issued[c]) >= 5 /\ result[c].ToEntry /= ZeroEntry
        /\ Succeeded(d)

(* ---------------------------------------------------------------------- *)
(* C2  Balance reconciliation                                              *)
(* ---------------------------------------------------------------------- *)
\* C2 as stated: every account's balance equals the sum of its entries.
ReconciliationAsStated ==
    \A id \in AccountIDs : accounts[id].balance = SumEntries(entries, id)

\* C2 amended: every account's balance equals the balance it was created with
\* plus the sum of the amounts of its entries.
Reconciliation ==
    \A id \in AccountIDs : accounts[id].balance = opening[id] + SumEntries(entries, id)

\* two transfers have committed on an account that was opened with a balance
ReconciliationWitness ==
    \E id \in AccountIDs :
        /\ opening[id] /= 0
        /\ Cardinality({e \in entries : e.account_id = id}) >= 2
        /\ \A c \in Calls : Succeeded(c)

(* ---------------------------------------------------------------------- *)
(* C3  Conservation                                                        *)
(* ---------------------------------------------------------------------- *)
ConservationOf(c, distinctOnly) ==
    LET f == arg[c].FromAccountID
        t == arg[c].ToAccountID
        m == arg[c].Amount
    IN /\ (distinctOnly => f /= t) =>
             /\ accounts'[f].balance - accounts[f].balance = 0 - m
             /\ accounts'[t].balance - accounts[t].balance = m
       /\ (distinctOnly /\ f = t) => accounts'[f].balance = accounts[f].balance
       /\ accounts'[f].balance + accounts'[t].balance = accounts[f].balance + accounts[t].balance

\* C3 as stated: every commit changes the source by -amount and the destination
\* by +amount.
ConservationAsStated ==
    [][\A c \in Calls : CommitsNow(c) => ConservationOf(c, FALSE)]_vars

\* C3 amended: every commit of a transfer between two distinct accounts changes
\* the source by -amount and the destination by +amount; a transfer from an
\* account to itself leaves its balance unchanged; in both cases the sum of the
\* two balances is unchanged.
Conservation ==
    [][\A c \in Calls : CommitsNow(c) => ConservationOf(c, TRUE)]_vars

\* transfers in both identifier orders have committed
ConservationWitness ==
    \E c, d \in Calls :
        /\ Succeeded(c) /\ arg[c].FromAccountID < arg[c].ToAccountID
        /\ Succeeded(d) /\ arg[d].FromAccountID > arg[d].ToAccountID

(* ---------------------------------------------------------------------- *)
(* C4  Deadlock freedom on two accounts                                    *)
(* ---------------------------------------------------------------------- *)
AllDone == \A c \in Calls : Done(c)

NetChange ==
    \A id \in AccountIDs :
        accounts[id].balance - opening[id] = SumCalls({c \in Calls : Succeeded(c)}, id)

\* C4: under fair scheduling the alternating calls all complete, and from then
\* on each account's net balance change is the sum of the signed amounts of the
\* calls that were applied to it.
DeadlockFreedom == <>[](AllDone /\ NetChange)

\* all alternating calls have completed without error
DeadlockFreedomWitness ==
    /\ \A c \in Calls : Succeeded(c)
    /\ \E c, d \in Calls : arg[c].FromAccountID = arg[d].ToAccountID /\ Distinct(c)

(* ---------------------------------------------------------------------- *)
(* C5  Lock-ordering rule                                                  *)
(* ---------------------------------------------------------------------- *)
\* the account ids of the balance adjustments a call has issued, in order
Adjusted(c) == SelectSeq(issued[c], LAMBDA s : s.op = "AddAccountBalance")

Smaller(a) == IF a.FromAccountID < a.ToAccountID THEN a.FromAccountID ELSE a.ToAccountID
Larger(a) == IF a.FromAccountID < a.ToAccountID THEN a.ToAccountID ELSE a.FromAccountID

\* C5: in every call with distinct accounts the first balance adjustment issued
\* is that of the smaller account id and the second that of the larger.
LockOrdering ==
    \A c \in Calls :
        Distinct(c) =>
            /\ Len(Adjusted(c)) >= 1 => Adjusted(c)[1].id = Smaller(arg[c])
            /\ Len(Adjusted(c)) >= 2 => Adjusted(c)[2].id = Larger(arg[c])
            /\ Len(Adjusted(c)) <= 2

\* calls in both directions have issued both of their adjustments
LockOrderingWitness ==
    \E c, d \in Calls :
        /\ Len(Adjusted(c)) = 2 /\ arg[c].FromAccountID < arg[c].ToAccountID
        /\ Len(Adjusted(d)) = 2 /\ arg[d].FromAccountID > arg[d].ToAccountID

(* ---------------------------------------------------------------------- *)
(* C6  No circular wait                                                    *)
(* ---------------------------------------------------------------------- *)
RECURSIVE WaitReach(_, _)
\* the calls reachable from the set S along WaitsFor in at most n steps
WaitReach(S, n) ==
    IF n = 0 THEN S
    ELSE WaitReach(S \cup {d \in Calls : \E c \in S : WaitsFor(c, d)}, n - 1)

WaitsOn(c) == {d \in Calls : WaitsFor(c, d)}

\* C6: no open transaction waits, directly or through others, for itself.
NoCircularWait ==
    \A c \in Calls : c \notin WaitReach(WaitsOn(c), Cardinality(Calls))

\* a chain of waits: one call waits for a second that waits for a third
NoCircularWaitWitness ==
    \E c, d, e \in Calls : c /= e /\ WaitsFor(c, d) /\ WaitsFor(d, e)

(* ---------------------------------------------------------------------- *)
(* C7  No lost update                                                      *)
(* ---------------------------------------------------------------------- *)
\* C7: every account's committed balance is its opening balance plus the deltas
\* of all committed calls on it, whatever the interleaving.
NoLostUpdate ==
    \A id \in AccountIDs :
        accounts[id].balance = opening[id] + SumCalls({c \in Calls : Committed(c)}, id)

\* two committed calls adjusted the same account by different amounts
NoLostUpdateWitness ==
    \E c, d \in Calls :
        /\ c /= d /\ Succeeded(c) /\ Succeeded(d)
        /\ arg[c].ToAccountID = arg[d].ToAccountID
        /\ arg[c].FromAccountID /= arg[d].FromAccountID
        /\ arg[c].Amount /= arg[d].Amount
        /\ Distinct(c) /\ Distinct(d)

(* ---------------------------------------------------------------------- *)
(* C8  Non-positive amount rejection                                       *)
(* ---------------------------------------------------------------------- *)
Writes(c) == SelectSeq(issued[c], LAMBDA s : s.op \in {"CreateTransfer", "CreateEntry", "AddAccountBalance"})

\* C8: a call of TransferTx with an amount of 0 or less issues no write and
\* returns an error.
NonPositiveRejected ==
    \A c \in Calls :
        (pc[c] /= "idle" /\ arg[c].Amount <= 0) =>
            /\ Writes(c) = <<>>
            /\ Done(c) => ret[c] /= NoErr

(* ---------------------------------------------------------------------- *)
(* C9  Result mapping                                                      *)
(* ---------------------------------------------------------------------- *)
\* C9: when the work of a transfer between distinct accounts has returned nil,
\* the result names the source with its committed balance less the amount, the
\* destination with its committed balance plus the amount, the debit entry on
\* the source, the credit entry on the destination and the transfer as given;
\* a successful call returns that result.
ResultMapping ==
    \A c \in Calls :
        LET f == arg[c].FromAccountID
            t == arg[c].ToAccountID
            m == arg[c].Amount
            r == result[c]
        IN ((pc[c] = "Commit" \/ Succeeded(c)) /\ Distinct(c)) =>
              /\ r.FromAccount.id = f /\ r.ToAccount.id = t
              /\ r.FromAccount.owner = accounts[f].owner /\ r.ToAccount.owner = accounts[t].owner
              /\ r.FromEntry.account_id = f /\ r.FromEntry.amount = 0 - m
              /\ r.ToEntry.account_id = t /\ r.ToEntry.amount = m
              /\ r.Transfer.from_account_id = f /\ r.Transfer.to_account_id = t
              /\ r.Transfer.amount = m
              /\ pc[c] = "Commit" =>
                    /\ r.FromAccount.balance = accounts[f].balance - m
                    /\ r.ToAccount.balance = accounts[t].balance + m

\* calls in both identifier orders have succeeded
ResultMappingWitness ==
    \E c, d \in Calls :
        /\ Succeeded(c) /\ arg[c].FromAccountID < arg[c].ToAccountID
        /\ Succeeded(d) /\ arg[d].FromAccountID > arg[d].ToAccountID
        /\ arg[c].Amount /= arg[d].Amount

(* ---------------------------------------------------------------------- *)
(* C10  Rollback on work error                                             *)
(* ---------------------------------------------------------------------- *)
Count(c, op) == Len(SelectSeq(issued[c], LAMBDA s : s.op = op))

\* C10: once the work has returned an error the call never commits; it ends
\* having attempted one rollback, returning the work's error itself when the
\* rollback succeeded and an error holding both messages, equal to neither,
\* when the rollback failed.
RollbackOnWorkError ==
    \A c \in Calls :
        workErr[c] /= NoErr =>
            /\ Count(c, "Commit") = 0
            /\ ~Committed(c)
            /\ pc[c] \in {"Rollback", "done"}
            /\ Done(c) =>
                  /\ Count(c, "Rollback") = 1
                  /\ txn[c].status = "rolledback"
                  /\ rbErr[c] = NoErr => ret[c] = workErr[c]
                  /\ rbErr[c] /= NoErr =>
                        /\ Contains(ret[c], workErr[c])
                        /\ Contains(ret[c], rbErr[c])
                        /\ ret[c] /= workErr[c]
                        /\ ret[c] /= rbErr[c]

\* a call whose work failed has ended with a failed rollback, another with a
\* successful one
RollbackOnWorkErrorWitness ==
    \E c, d \in Calls :
        /\ Done(c) /\ workErr[c] /= NoErr /\ rbErr[c] /= NoErr
        /\ Done(d) /\ workErr[d] /= NoErr /\ rbErr[d] = NoErr

(* ---------------------------------------------------------------------- *)
(* C11  Commit decides durability                                          *)
(* ---------------------------------------------------------------------- *)
\* the work of c ran all five writes and returned nil
WorkSucceeded(c) == workErr[c] = NoErr /\ Len(Writes(c)) = 5

\* the writes of c are in the committed tables
Durable(c) ==
    /\ result[c].Transfer \in transfers
    /\ result[c].FromEntry \in entries
    /\ result[c].ToEntry \in entries

\* none of the writes of c is in the committed tables
Absent(c) ==
    /\ \A t \in transfers : t.id /= TransferID(c)
    /\ \A e \in entries : e.id \notin {EntryID(c, "CreateEntry1"), EntryID(c, "CreateEntry2")}

\* C11: a call whose work succeeded attempts the commit once and nothing
\* after it (no rollback, no second transaction); its writes are in the
\* committed state exactly when the call returned nil, and a failed commit is
\* what the call returns; the committed balances carry the deltas of exactly
\* the calls that returned nil.
CommitDecides ==
    /\ \A c \in Calls :
          /\ Count(c, "Commit") <= 1
          /\ Count(c, "BeginTx") <= 1
          /\ Count(c, "Commit") = 1 => (WorkSucceeded(c) /\ Done(c))
          /\ (WorkSucceeded(c) /\ pc[c] = "Commit") => (Count(c, "Commit") = 0 /\ Absent(c))
          /\ (WorkSucceeded(c) /\ Done(c)) =>
                /\ Count(c, "Commit") = 1
                /\ Count(c, "Rollback") = 0
                /\ issued[c][Len(issued[c])].op = "Commit"
                /\ ret[c] = NoErr <=> Durable(c)
                /\ ret[c] = NoErr <=> Committed(c)
                /\ ret[c] /= NoErr => (ret[c] = ErrCommit /\ Absent(c))
    /\ \A id \in AccountIDs :
          accounts[id].balance =
              opening[id] + SumCalls({c \in Calls : Done(c) /\ ret[c] = NoErr}, id)

\* the commit of one call failed after all its writes, that of another succeeded
CommitDecidesWitness ==
    \E c, d \in Calls :
        /\ WorkSucceeded(c) /\ Done(c) /\ ret[c] = ErrCommit
        /\ WorkSucceeded(d) /\ Succeeded(d)
        /\ arg[c] = arg[d]

(* ---------------------------------------------------------------------- *)
(* C12  Begin failure                                                      *)
(* ---------------------------------------------------------------------- *)
\* BeginTx was called for c and opened no transaction
BeginTxFailed(c) == Count(c, "BeginTx") = 1 /\ txn[c].status = "none"

\* C12: a call whose BeginTx failed has returned that error, and BeginTx is
\* the only thing it has issued: the work was not invoked (no result, no work
\* error), no write was issued, neither commit nor rollback was attempted, and
\* nothing of it is committed.
BeginFailure ==
    \A c \in Calls :
        BeginTxFailed(c) =>
            /\ Done(c)
            /\ ret[c] = ErrBegin
            /\ issued[c] = <<[op |-> "BeginTx", id |-> 0]>>
            /\ Writes(c) = <<>>
            /\ Count(c, "Commit") = 0 /\ Count(c, "Rollback") = 0
            /\ result[c] = ZeroResult
            /\ workErr[c] = NoErr /\ rbErr[c] = NoErr
            /\ Absent(c)

\* BeginTx failed for one call while another call committed
BeginFailureWitness ==
    \E c, d \in Calls :
        /\ BeginTxFailed(c) /\ Done(c) /\ ret[c] = ErrBegin
        /\ Succeeded(d)

(* ---------------------------------------------------------------------- *)
(* C13  No swallowed error                                                 *)
(* ---------------------------------------------------------------------- *)
\* C13: a call that has returned returned nil exactly when all its writes were
\* issued successfully and its commit succeeded; otherwise it returned one
\* non-nil error that carries the error of the step that failed (the begin,
\* the work together with a failed rollback, or the commit), and none of its
\* writes is committed: the balances carry the calls that returned nil only.
NoSwallowedError ==
    /\ \A c \in Calls :
          Done(c) =>
             /\ ret[c] = NoErr <=> (WorkSucceeded(c) /\ Committed(c))
             /\ ret[c] = NoErr => Durable(c)
             /\ ret[c] /= NoErr =>
                   /\ Absent(c)
                   /\ ~Committed(c)
                   /\ BeginTxFailed(c) => ret[c] = ErrBegin
                   /\ workErr[c] /= NoErr => Contains(ret[c], workErr[c])
                   /\ rbErr[c] /= NoErr => Contains(ret[c], rbErr[c])
                   /\ (~BeginTxFailed(c) /\ workErr[c] = NoErr) => ret[c] = ErrCommit
             /\ (BeginTxFailed(c) \/ workErr[c] /= NoErr \/ rbErr[c] /= NoErr) => ret[c] /= NoErr
    /\ \A id \in AccountIDs :
          accounts[id].balance =
              opening[id] + SumCalls(Calls \ {c \in Calls : ~Done(c) \/ ret[c] /= NoErr}, id)

\* a call failed at its last write after four successful ones and was rolled
\* back without a rollback error, while another call returned nil
NoSwallowedErrorWitness ==
    \E c, d \in Calls :
        /\ Done(c) /\ Len(Writes(c)) = 5 /\ workErr[c] /= NoErr /\ rbErr[c] = NoErr
        /\ ret[c] = workErr[c]
        /\ Done(d) /\ ret[d] = NoErr

(* ---------------------------------------------------------------------- *)
(* C14  No visible partial writes                                          *)
(* ---------------------------------------------------------------------- *)
\* what any other unit of work reads: the committed tables
VisibleState == <<accounts, transfers, entries>>

\* the whole of the transfer of c becomes visible in this step
AppearsWhole(c) ==
    /\ CommitsNow(c)
    /\ WorkSucceeded(c)
    /\ transfers' = transfers \cup {result[c].Transfer}
    /\ result[c].Transfer \notin transfers
    /\ entries' = entries \cup {result[c].FromEntry, result[c].ToEntry}
    /\ {result[c].FromEntry, result[c].ToEntry} \cap entries = {}
    /\ \A id \in AccountIDs :
          accounts'[id] = [accounts[id] EXCEPT !.balance =
              @ + Delta(arg[c].FromAccountID, arg[c].ToAccountID, arg[c].Amount, id)]

\* C14: nothing of a transfer is visible to other units of work while its
\* transaction has not committed, and every step that changes what they can
\* read makes the transfer record, both entries and both balance adjustments
\* of one transfer visible together.
NoPartialWrites ==
    /\ [](\A c \in Calls : ~Committed(c) => Absent(c))
    /\ [][VisibleState' /= VisibleState => \E c \in Calls : AppearsWhole(c)]_vars

\* one call has committed while another, with writes issued on the same
\* accounts, is still open
NoPartialWritesWitness ==
    \E c, d \in Calls :
        /\ Succeeded(c)
        /\ txn[d].status = "open" /\ Len(Writes(d)) >= 3
        /\ arg[d].FromAccountID = arg[c].ToAccountID

(* ---------------------------------------------------------------------- *)
(* C15  Write order                                                        *)
(* ---------------------------------------------------------------------- *)
WriteOps ==
    <<"CreateTransfer", "CreateEntry", "CreateEntry", "AddAccountBalance", "AddAccountBalance">>

\* C15: the writes a call has issued are, in order, a prefix of: the transfer
\* record, the entry on the source, the entry on the destination, the two
\* balance adjustments on the two accounts; they follow BeginTx without gap,
\* and each was issued only after the one before it had returned its row.
WriteOrder ==
    \A c \in Calls :
        LET w == Writes(c)
            r == result[c]
        IN /\ Len(w) <= 5
           /\ \A i \in 1..Len(w) : w[i].op = WriteOps[i]
           /\ Len(w) >= 1 => (issued[c][1].op = "BeginTx" /\ SubSeq(issued[c], 2, Len(w) + 1) = w)
           /\ Len(w) >= 2 => (w[2].id = arg[c].FromAccountID /\ r.Transfer /= ZeroTransfer)
           /\ Len(w) >= 3 => (w[3].id = arg[c].ToAccountID /\ r.FromEntry /= ZeroEntry)
           /\ Len(w) >= 4 => r.ToEntry /= ZeroEntry
           /\ Len(w) >= 5 =>
                 /\ {w[4].id, w[5].id} = {arg[c].FromAccountID, arg[c].ToAccountID}
                 /\ (r.FromAccount /= ZeroAccount \/ r.ToAccount /= ZeroAccount)

\* calls in both identifier orders have issued all five writes
WriteOrderWitness ==
    \E c, d \in Calls :
        /\ Len(Writes(c)) = 5 /\ arg[c].FromAccountID < arg[c].ToAccountID
        /\ Len(Writes(d)) = 5 /\ arg[d].FromAccountID > arg[d].ToAccountID
        /\ WorkSucceeded(c) /\ WorkSucceeded(d)

(* ---------------------------------------------------------------------- *)
(* C16  Cancellation                                                       *)
(* ---------------------------------------------------------------------- *)
\* C16: a call whose context was cancelled before its commit, whatever it had
\* issued by then, never commits: none of its rows is committed, the balances
\* carry the deltas of the other calls only, its transaction (once begun) is
\* rolled back, and the call ends with an error.
Cancellation ==
    /\ \A c \in Calls :
          cancelled[c] =>
             /\ ~Committed(c)
             /\ Absent(c)
             /\ ~BeginTxFailed(c) => txn[c].status \in {"none", "rolledback"}
             /\ Done(c) =>
                   /\ ret[c] /= NoErr
                   /\ ~BeginTxFailed(c) => txn[c].status = "rolledback"
    /\ \A id \in AccountIDs :
          accounts[id].balance =
              opening[id] + SumCalls({c \in Calls : Succeeded(c) /\ ~cancelled[c]}, id)

\* a call was cancelled after all its writes had succeeded, before its commit,
\* and has returned; another call, cancelled after its second write, also has
CancellationWitness ==
    \E c, d \in Calls :
        /\ cancelled[c] /\ Done(c) /\ WorkSucceeded(c) /\ Count(c, "Commit") = 1
        /\ cancelled[d] /\ Done(d) /\ Len(Writes(d)) = 3 /\ workErr[d] = ErrCanceled
        /\ result[d].FromEntry /= ZeroEntry

(* ---------------------------------------------------------------------- *)
(* C17  Per-attempt state machine                                          *)
(* ---------------------------------------------------------------------- *)
Started(c) == txn[c].status = "open"
Terminal(c) == txn[c].status \in {"committed", "rolledback"}

\* C17: under fair scheduling every call whose transaction has started
\* eventually has it committed or rolled back; a committed transaction stays
\* committed and a rolled back one stays rolled back, so no attempt reaches
\* both; and a call that began a transaction returns in no other state.
AttemptStateMachine ==
    /\ \A c \in 1..NumAlt : Started(c) ~> Terminal(c)
    /\ [][\A c \in Calls :
             /\ txn[c].status = "committed" => txn'[c].status = "committed"
             /\ txn[c].status = "rolledback" => txn'[c].status = "rolledback"]_vars
    /\ [](\A c \in Calls : (Done(c) /\ ~BeginTxFailed(c)) => Terminal(c))

\* all calls have returned, one committed and one rolled back after a wait
AttemptStateMachineWitness ==
    /\ AllDone
    /\ \E c, d \in Calls :
          /\ txn[c].status = "committed"
          /\ txn[d].status = "rolledback" /\ Len(Writes(d)) = 5

(* ---------------------------------------------------------------------- *)
(* C18  Same-account transfer                                              *)
(* ---------------------------------------------------------------------- *)
\* C18: a call with the source equal to the destination runs like any other:
\* when its work has returned, its transaction holds one transfer record from
\* the account to itself, an entry of -amount and an entry of +amount on the
\* account, and a balance for the account equal to the committed one; when it
\* has succeeded, the record and both entries are committed.
SameAccount ==
    \A c \in Calls :
        LET f == arg[c].FromAccountID
            m == arg[c].Amount
            r == result[c]
        IN (pc[c] /= "idle" /\ ~Distinct(c)) =>
              /\ (pc[c] = "Commit" /\ Started(c)) =>
                    /\ txn[c].transfers = {r.Transfer}
                    /\ txn[c].entries = {r.FromEntry, r.ToEntry}
                    /\ Updated(c) = {f}
                    /\ txn[c].rows[f].balance = accounts[f].balance
                    /\ r.FromAccount.balance = accounts[f].balance
                    /\ r.ToAccount.balance = accounts[f].balance + m
              /\ (pc[c] = "Commit" \/ Succeeded(c)) =>
                    /\ r.Transfer.from_account_id = f /\ r.Transfer.to_account_id = f
                    /\ r.Transfer.amount = m
                    /\ r.FromEntry.account_id = f /\ r.FromEntry.amount = 0 - m
                    /\ r.ToEntry.account_id = f /\ r.ToEntry.amount = m
                    /\ r.FromEntry /= r.ToEntry
              /\ Succeeded(c) => Durable(c)

\* a transfer from an account to itself has succeeded, after another call had
\* changed the balance of that account
SameAccountWitness ==
    \E c, d \in Calls :
        /\ Succeeded(c) /\ ~Distinct(c)
        /\ Succeeded(d) /\ Distinct(d) /\ arg[d].ToAccountID = arg[c].FromAccountID
        /\ accounts[arg[c].FromAccountID].balance = opening[arg[c].FromAccountID] + arg[d].Amount

(* ---------------------------------------------------------------------- *)
(* C19  Two entries per transfer                                           *)
(* ---------------------------------------------------------------------- *)
RECURSIVE SumAmounts(_)
SumAmounts(S) ==
    IF S = {} THEN 0
    ELSE LET e == CHOOSE x \in S : TRUE
         IN e.amount + SumAmounts(S \ {e})

\* the committed entries written by the call that wrote transfer record t
EntriesOf(t) ==
    UNION {{e \in entries : e.id \in {EntryID(c, "CreateEntry1"), EntryID(c, "CreateEntry2")}} :
              c \in {d \in Calls : TransferID(d) = t.id}}

\* C19: every committed transfer record has exactly two committed entries
\* written with it, one of -amount on its source and one of +amount on its
\* destination; every committed entry belongs to a committed transfer record;
\* there are twice as many entries as transfer records, and the amounts of all
\* entries sum to zero.
TwoEntries ==
    /\ \A t \in transfers :
          /\ Cardinality(EntriesOf(t)) = 2
          /\ \E e1, e2 \in EntriesOf(t) :
                /\ e1 /= e2
                /\ e1.account_id = t.from_account_id /\ e1.amount = 0 - t.amount
                /\ e2.account_id = t.to_account_id /\ e2.amount = t.amount
    /\ entries = UNION {EntriesOf(t) : t \in transfers}
    /\ Cardinality(entries) = 2 * Cardinality(transfers)
    /\ SumAmounts(entries) = 0

\* two transfer records of different amounts are committed, one of them from
\* an account to itself
TwoEntriesWitness ==
    \E t, u \in transfers :
        /\ t.amount /= u.amount
        /\ t.from_account_id = t.to_account_id
        /\ u.from_account_id /= u.to_account_id

(* ---------------------------------------------------------------------- *)
(* C20  Safe to retry                                                      *)
(* ---------------------------------------------------------------------- *)
\* a row without its generated id
TransferContent(t) ==
    [from_account_id |-> t.from_account_id, to_account_id |-> t.to_account_id,
     amount |-> t.amount]
EntryContent(e) == [account_id |-> e.account_id, amount |-> e.amount]

\* The committed state one successful call with request a produces from the
\* state the accounts were created in.
SingleCall(a) ==
    LET m == AddMoneyArgs(a)
        p1 == AddMoneyParams1(m)
        p2 == AddMoneyParams2(m)
        created == [id \in AccountIDs |->
                       [id |-> id, owner |-> Owner(id), balance |-> opening[id],
                        currency |-> Currency(id), created_at |-> CreatedAt(id)]]
        first == [created EXCEPT ![p1.ID].balance = @ + p1.Amount]
    IN [accounts |-> [first EXCEPT ![p2.ID].balance = @ + p2.Amount],
        transfers |-> {[from_account_id |-> CreateTransferParams(a).FromAccountID,
                        to_account_id |-> CreateTransferParams(a).ToAccountID,
                        amount |-> CreateTransferParams(a).Amount]},
        entries |-> {[account_id |-> CreateEntryParams1(a).AccountID,
                      amount |-> CreateEntryParams1(a).Amount],
                     [account_id |-> CreateEntryParams2(a).AccountID,
                      amount |-> CreateEntryParams2(a).Amount]}]

\* the calls before c, all of which failed when c was submitted
Earlier(c) == {d \in Calls : d < c}

\* C20: once a call has succeeded, however many failed attempts of the same
\* request came before it, the committed accounts, transfer records and
\* entries are those one successful call produces from the state before the
\* first attempt (rows compared without their generated ids); and as long as
\* no attempt has succeeded the committed state is that state itself.
SafeRetry ==
    /\ \A c \in Calls :
          Succeeded(c) =>
             /\ \A d \in Earlier(c) : Done(d) /\ ret[d] /= NoErr /\ arg[d] = arg[c]
             /\ accounts = SingleCall(arg[c]).accounts
             /\ {TransferContent(t) : t \in transfers} = SingleCall(arg[c]).transfers
             /\ Cardinality(transfers) = 1
             /\ {EntryContent(e) : e \in entries} = SingleCall(arg[c]).entries
             /\ Cardinality(entries) = 2
    /\ (\A c \in Calls : ~Succeeded(c)) =>
          /\ transfers = {} /\ entries = {}
          /\ \A id \in AccountIDs : accounts[id].balance = opening[id]

\* the first attempt failed at its commit, the second at its last write, and
\* the third succeeded
SafeRetryWitness ==
    \E c, d, e \in Calls :
        /\ c < d /\ d < e
        /\ Done(c) /\ ret[c] = ErrCommit
        /\ Done(d) /\ workErr[d] /= NoErr /\ Len(Writes(d)) = 5 /\ rbErr[d] /= NoErr
        /\ Succeeded(e) /\ Distinct(e)

(* ---------------------------------------------------------------------- *)
(* C27  No balance floor                                                   *)
(* ---------------------------------------------------------------------- *)
\* C27: the only errors the work of a call returns are those of its
\* statements, none for a balance too small; when the work of a transfer
\* between distinct accounts has returned nil with an amount greater than the
\* committed balance of the source, the balance about to be committed for the
\* source is that balance less the amount, below zero; and every committed
\* balance, negative or not, is the opening balance plus the committed
\* transfers.
NoBalanceFloor ==
    /\ \A c \in Calls :
          LET f == arg[c].FromAccountID
              m == arg[c].Amount
          IN /\ workErr[c] \in {NoErr, ErrStmt}
             /\ (pc[c] = "Commit" /\ Distinct(c) /\ accounts[f].balance < m) =>
                   /\ txn[c].rows[f].balance = accounts[f].balance - m
                   /\ txn[c].rows[f].balance < 0
                   /\ result[c].FromAccount.balance < 0
    /\ \A id \in AccountIDs :
          accounts[id].balance = opening[id] + SumTransfers(transfers, id)

\* a transfer out of an account holding less than the amount has succeeded and
\* the committed balance of that account is negative
NoBalanceFloorWitness ==
    \E c \in Calls :
        /\ Succeeded(c) /\ Distinct(c)
        /\ opening[arg[c].FromAccountID] < arg[c].Amount
        /\ accounts[arg[c].FromAccountID].balance < 0

(* ---------------------------------------------------------------------- *)
(* C28  Positive transfer amount                                           *)
(* ---------------------------------------------------------------------- *)
\* C28: every committed transfer record has an amount greater than zero.
PositiveAmount == \A t \in transfers : t.amount > 0

(* ---------------------------------------------------------------------- *)
(* C29  Append-only ledger                                                 *)
(* ---------------------------------------------------------------------- *)
\* C29: no step of any call, committing, failing or rolling back, removes a
\* committed transfer record or entry or changes one of its fields: every
\* committed row is still committed, with the same fields, after the step.
AppendOnly ==
    [][/\ \A t \in transfers : t \in transfers'
       /\ \A e \in entries : e \in entries'
       /\ Cardinality(transfers') >= Cardinality(transfers)
       /\ Cardinality(entries') >= Cardinality(entries)]_vars

\* a second transfer has committed on the accounts of a committed one, after a
\* third party's rows were there
AppendOnlyWitness ==
    \E c, d \in Calls :
        /\ c /= d /\ Succeeded(c) /\ Succeeded(d)
        /\ arg[c].FromAccountID = arg[d].ToAccountID
        /\ arg[c].ToAccountID = arg[d].FromAccountID
        /\ Cardinality(entries) = 4 /\ Cardinality(transfers) = 2

(* ---------------------------------------------------------------------- *)
(* C30  No retry inside the orchestrator                                   *)
(* ---------------------------------------------------------------------- *)
\* how many times c has issued operation op on account id
CountOn(c, op, id) == Len(SelectSeq(issued[c], LAMBDA s : s.op = op /\ s.id = id))

\* C30: a call has begun at most one transaction, issued the transfer record
\* at most once, at most one entry per side, at most one balance adjustment
\* per side (two on the one account of a same-account transfer), at most one
\* commit and at most one rollback, and never more than seven operations in
\* all, whether or not a step or the commit failed.
NoRetry ==
    \A c \in Calls :
        LET f == arg[c].FromAccountID
            t == arg[c].ToAccountID
            sides == IF f = t THEN 2 ELSE 1
        IN /\ Count(c, "BeginTx") <= 1
           /\ Count(c, "CreateTransfer") <= 1
           /\ Count(c, "CreateEntry") <= 2
           /\ Count(c, "AddAccountBalance") <= 2
           /\ \A id \in {f, t} :
                 /\ CountOn(c, "CreateEntry", id) <= sides
                 /\ CountOn(c, "AddAccountBalance", id) <= sides
           /\ Count(c, "Commit") + Count(c, "Rollback") <= 1
           /\ Len(issued[c]) <= 7

\* one call has returned after a failed statement and a failed rollback,
\* another after a failed commit
NoRetryWitness ==
    \E c, d \in Calls :
        /\ Done(c) /\ workErr[c] /= NoErr /\ rbErr[c] /= NoErr /\ Len(Writes(c)) = 4
        /\ Done(d) /\ ret[d] = ErrCommit

(* ---------------------------------------------------------------------- *)
(* C24  Idempotent read                                                    *)
(* ---------------------------------------------------------------------- *)
\* the call the step has just added to the history
LastQuery == queries'[Len(queries')]
Queried == Len(queries') = Len(queries) + 1

\* a write was committed between calls i and j of the history
WriteBetween(i, j) ==
    \E k \in (i + 1)..(j - 1) : queries[k].op /= "GetAccount" /\ queries[k].err = NoErr

\* call i is a GetAccount of id the engine answered
Read(i, id) ==
    /\ queries[i].op = "GetAccount" /\ queries[i].id = id
    /\ queries[i].err \in {NoErr, ErrNoRows}

DeleteThenGet ==
    \A i \in 1..Len(queries) :
        (queries[i].op = "DeleteAccount" /\ queries[i].err = NoErr) =>
            /\ queries[i].id \notin DOMAIN accounts
            /\ \A j \in (i + 1)..Len(queries) :
                  Read(j, queries[i].id) =>
                      /\ queries[j].err = ErrNoRows
                      /\ queries[j].account = ZeroAccount

\* an account that held a balance was deleted, then updated in vain, then read
DeleteThenGetWitness ==
    /\ Len(queries) = 3
    /\ queries[1].op = "DeleteAccount" /\ queries[1].err = NoErr
    /\ opening[queries[1].id] > 0
    /\ queries[2].op = "UpdateAccount" /\ queries[2].id = queries[1].id
    /\ Read(3, queries[1].id)

(* ---------------------------------------------------------------------- *)
(* C26  Balance update frame                                               *)
(* ---------------------------------------------------------------------- *)
\* C26: a successful UpdateAccount or AddAccountBalance leaves every other
\* account, the entries and the transfer records as they were, keeps the id,
\* owner, currency and creation time of the account it addresses, and returns
\* the row it wrote; UpdateAccount sets the balance to its parameter.
UpdateFrame ==
    [][(Queried /\ LastQuery.op \in {"UpdateAccount", "AddAccountBalance"}
                /\ LastQuery.err = NoErr) =>
          LET id == LastQuery.id
          IN /\ DOMAIN accounts' = DOMAIN accounts
             /\ \A i \in DOMAIN accounts : i /= id => accounts'[i] = accounts[i]
             /\ accounts'[id].id = accounts[id].id
             /\ accounts'[id].owner = accounts[id].owner
             /\ accounts'[id].currency = accounts[id].currency
             /\ accounts'[id].created_at = accounts[id].created_at
             /\ LastQuery.account = accounts'[id]
             /\ LastQuery.op = "UpdateAccount" => accounts'[id].balance = RandomMoney
             /\ transfers' = transfers /\ entries' = entries]_vars

\* one account has had its balance set and then adjusted
UpdateFrameWitness ==
    \E i, j \in 1..Len(queries) :
        /\ i < j /\ queries[i].id = queries[j].id
        /\ queries[i].op = "UpdateAccount" /\ queries[i].err = NoErr
        /\ queries[j].op = "AddAccountBalance" /\ queries[j].err = NoErr
        /\ queries[j].account.balance /= queries[i].account.balance
        /\ queries[i].account.balance /= opening[queries[i].id]

(* ---------------------------------------------------------------------- *)
(* C22  Auth middleware                                                    *)
(* ---------------------------------------------------------------------- *)
\* the middleware has dealt with request r
PastMiddleware(r) == http[r].pc \notin {"new", "middleware"}

\* the header is present, has two fields or more, the first spelling bearer
\* in any case, the second a token the maker verifies
HeaderAccepted(h) ==
    /\ Len(h) > 0
    /\ Len(Fields(h)) >= 2
    /\ ToLower(Fields(h)[1]) = Bearer
    /\ VerifyToken(Fields(h)[2]).err = NoErr

\* C22: the middleware called the next handler exactly for the requests whose
\* header is accepted, storing the payload of the token; every other request
\* it answered 401 itself, with no payload stored, no handler run and no call
\* of the store.
AuthGate ==
    \A r \in DOMAIN http :
        PastMiddleware(r) =>
            /\ http[r].next <=> HeaderAccepted(http[r].header)
            /\ http[r].next =>
                  /\ http[r].payload \in Users
                  /\ Fields(http[r].header)[2] = TokenOf(http[r].payload)
            /\ ~http[r].next =>
                  /\ http[r].pc = "done" /\ http[r].status = 401
                  /\ http[r].payload = 0
                  /\ http[r].store = <<>> /\ http[r].reply = <<>>
                  /\ pc[r] = "idle"

\* a request whose header has leading space, an upper-case scheme, a tab and
\* a third field was let through and answered 200
AuthGateWitness ==
    \E r \in DOMAIN http :
        /\ http[r].pc = "done" /\ http[r].next /\ http[r].status = 200
        /\ Len(Fields(http[r].header)) = 3
        /\ Fields(http[r].header)[1] = BearerUpper

(* ---------------------------------------------------------------------- *)
(* C23  Account creation through the API                                   *)
(* ---------------------------------------------------------------------- *)
\* request r is a POST /accounts the handler has answered
AccountAnswered(r) == http[r].handler = "createAccount" /\ http[r].pc = "done"

\* r was authorized and asks for a supported currency
AccountWanted(r) ==
    http[r].next /\ http[r].body.ok /\ http[r].body.Currency \in SupportedCurrencies

\* r made exactly one call of the store: CreateAccount for the authenticated
\* user, the requested currency and balance 0
CreatedOnce(r) ==
    /\ Len(http[r].store) = 1
    /\ http[r].store[1].op = "CreateAccount"
    /\ http[r].store[1].arg =
          [Owner |-> http[r].payload, Currency |-> http[r].body.Currency, Balance |-> 0]

\* C23 as stated: an unauthorized POST /accounts gets 401 without a call of
\* CreateAccount; an authorized one with a supported currency calls
\* CreateAccount once and answers 200 with the created account.
AccountCreationAsStated ==
    \A r \in DOMAIN http :
        AccountAnswered(r) =>
            /\ ~http[r].next => (http[r].status = 401 /\ http[r].store = <<>>)
            /\ AccountWanted(r) =>
                  /\ CreatedOnce(r)
                  /\ http[r].status = 200
                  /\ Len(http[r].reply) = 1

\* C23 amended: an unauthorized POST /accounts gets 401 without a call of
\* CreateAccount and creates nothing; an authorized one with a supported
\* currency calls CreateAccount once for the authenticated user, the
\* requested currency and balance 0, and answers 200 with the created
\* account when the call succeeded, 403 when it failed on a unique or foreign
\* key violation and 500 on any other error, creating nothing.
AccountCreation ==
    \A r \in DOMAIN http :
        AccountAnswered(r) =>
            /\ ~http[r].next =>
                  /\ http[r].status = 401 /\ http[r].store = <<>>
                  /\ DOMAIN accounts = AccountIDs
            /\ AccountWanted(r) =>
                  /\ CreatedOnce(r)
                  /\ http[r].store[1].err = NoErr =>
                        /\ http[r].status = 200
                        /\ Len(http[r].reply) = 1
                        /\ http[r].reply[1].id \in DOMAIN accounts \ AccountIDs
                        /\ http[r].reply[1] = accounts[http[r].reply[1].id]
                        /\ http[r].reply[1].owner = http[r].payload
                        /\ http[r].reply[1].currency = http[r].body.Currency
                        /\ http[r].reply[1].balance = 0
                  /\ http[r].store[1].err \in {ErrUniqueViolation, ErrForeignKey} =>
                        http[r].status = 403
                  /\ http[r].store[1].err \notin {NoErr, ErrUniqueViolation, ErrForeignKey} =>
                        http[r].status = 500
                  /\ http[r].store[1].err /= NoErr =>
                        (http[r].reply = <<>> /\ DOMAIN accounts = AccountIDs)

\* an authorized user who holds an account in another currency was answered
\* 200 with a new account
AccountCreationWitness ==
    \E r \in DOMAIN http :
        /\ AccountAnswered(r) /\ AccountWanted(r) /\ http[r].status = 200
        /\ Cardinality(DOMAIN accounts) = NumAccounts + 1
        /\ \E id \in AccountIDs : accounts[id].owner = http[r].payload

(* ---------------------------------------------------------------------- *)
(* C21  Transfer handler preconditions                                     *)
(* ---------------------------------------------------------------------- *)
\* request r is a POST /transfers the handler has begun to serve
TransferServed(r) ==
    http[r].handler = "createTransfer" /\ http[r].pc \in {"validTo", "TransferTx", "done"}

\* the operations request r called on the store, in the order of the calls
StoreOps(r) == [i \in DOMAIN http[r].store |-> http[r].store[i].op]

\* r called the store's TransferTx
CalledTransferTx(r) == \E i \in DOMAIN http[r].store : http[r].store[i].op = "TransferTx"

\* the account with this id exists and holds the requested currency
HoldsCurrency(id, currency) == id \in DOMAIN accounts /\ accounts[id].currency = currency

\* the checks that precede TransferTx, in the order of the handler: TransferTx
\* is the third call of the store, after the lookup of the source and the
\* lookup of the destination, both answered, with the request's three fields
TransferPreconditions(r) ==
    LET req == http[r].body
    IN CalledTransferTx(r) =>
          /\ req.ok /\ req.Amount > 0
          /\ req.Currency \in SupportedCurrencies
          /\ StoreOps(r) = <<"GetAccount", "GetAccount", "TransferTx">>
          /\ http[r].store[1].arg = req.FromAccountID /\ http[r].store[1].err = NoErr
          /\ HoldsCurrency(req.FromAccountID, req.Currency)
          /\ http[r].payload /= 0
          /\ accounts[req.FromAccountID].owner = http[r].payload
          /\ http[r].store[2].arg = req.ToAccountID /\ http[r].store[2].err = NoErr
          /\ HoldsCurrency(req.ToAccountID, req.Currency)
          /\ http[r].store[3].arg = TransferArg(req)
          /\ arg[r] = TransferArg(req)

\* the caller of r does not own the source account r names
NotOwner(r) ==
    /\ http[r].body.FromAccountID \in DOMAIN accounts
    /\ accounts[http[r].body.FromAccountID].owner /= http[r].payload

\* r was answered 401 after the lookup of the source alone
RefusedAtOwner(r) ==
    /\ http[r].pc = "done" /\ http[r].status = 401
    /\ StoreOps(r) = <<"GetAccount">>
    /\ pc[r] = "idle"

\* C21 as stated: TransferTx is called only after the ordered checks, and
\* whenever the caller does not own the source account the handler answers
\* 401 without looking up the destination or calling TransferTx.
TransferGuardAsStated ==
    \A r \in DOMAIN http :
        /\ pc[r] /= "idle" => CalledTransferTx(r)
        /\ TransferServed(r) /\ http[r].next =>
              /\ TransferPreconditions(r)
              /\ NotOwner(r) => RefusedAtOwner(r)

\* C21 amended: TransferTx is called only after the ordered checks, and when
\* the request is well formed, with a positive amount and a supported
\* currency, the source account was found holding that currency and the
\* caller does not own it, the handler answers 401 without looking up the
\* destination or calling TransferTx; in no case does a caller who is not
\* the owner of the source reach the destination lookup or TransferTx.
TransferGuard ==
    \A r \in DOMAIN http :
        /\ pc[r] /= "idle" => CalledTransferTx(r)
        /\ TransferServed(r) /\ http[r].next =>
              /\ TransferPreconditions(r)
              /\ NotOwner(r) =>
                    /\ Len(http[r].store) <= 1
                    /\ pc[r] = "idle"
                    /\ http[r].status \in {400, 401, 500}
                    /\ ( /\ http[r].body.ok /\ http[r].body.Amount > 0
                         /\ http[r].body.Currency \in SupportedCurrencies
                         /\ Len(http[r].store) = 1 /\ http[r].store[1].err = NoErr
                         /\ HoldsCurrency(http[r].body.FromAccountID, http[r].body.Currency) )
                       => RefusedAtOwner(r)

\* a caller asked to move money out of an account of another user, holding
\* the requested currency, and was answered 401 after the first lookup
TransferGuardWitness ==
    \E r \in DOMAIN http :
        /\ TransferServed(r) /\ http[r].next /\ NotOwner(r) /\ RefusedAtOwner(r)
        /\ HoldsCurrency(http[r].body.FromAccountID, http[r].body.Currency)
        /\ HoldsCurrency(http[r].body.ToAccountID, http[r].body.Currency)
        /\ http[r].body.Amount > 0

(* ---------------------------------------------------------------------- *)
(* C31  Stop at first failing step                                         *)
(* ---------------------------------------------------------------------- *)
\* the k-th write of call c has returned its row into the result
StepDone(c, k) ==
    CASE k = 1 -> result[c].Transfer /= ZeroTransfer
      [] k = 2 -> result[c].FromEntry /= ZeroEntry
      [] k = 3 -> result[c].ToEntry /= ZeroEntry
      [] k = 4 -> result[c].FromAccount /= ZeroAccount \/ result[c].ToAccount /= ZeroAccount
      [] OTHER -> result[c].FromAccount /= ZeroAccount /\ result[c].ToAccount /= ZeroAccount

\* the last write call c has issued has returned an error
LastWriteFailed(c) ==
    /\ Len(Writes(c)) >= 1
    /\ ~StepDone(c, Len(Writes(c)))
    /\ pc[c] \in {"Rollback", "Commit", "done"}

\* every write c has issued but the last has succeeded, and no write follows
\* the last: no write was issued after a failed one
StoppedAtFailure(c) ==
    /\ \A k \in 1..5 : k < Len(Writes(c)) => StepDone(c, k)
    /\ \A k \in 1..5 : k > Len(Writes(c)) => ~StepDone(c, k)
    /\ LastWriteFailed(c) <=> workErr[c] /= NoErr
    /\ LastWriteFailed(c) =>
          /\ workErr[c] \in {ErrStmt, ErrCanceled, ErrForeignKey, ErrNoRows}
          /\ pc[c] \in {"Rollback", "done"}
          /\ Count(c, "Commit") = 0

\* C31 as stated: no write is issued after a failed one, and the error
\* TransferTx returns is the error of the first failing step.
StopAtFirstFailureAsStated ==
    \A c \in Calls :
        /\ StoppedAtFailure(c)
        /\ (LastWriteFailed(c) /\ Done(c)) => ret[c] = workErr[c]

\* C31 amended: no write is issued after a failed one (a failed
\* create-transfer issues no entry, a failed entry no balance adjustment, a
\* failed first adjustment not the second); the work returns the error of the
\* first failing step, and TransferTx returns that error itself when the
\* rollback succeeds and a new error holding its message and the rollback's
\* when the rollback fails too.
StopAtFirstFailure ==
    \A c \in Calls :
        /\ StoppedAtFailure(c)
        /\ (LastWriteFailed(c) /\ Done(c)) =>
              /\ rbErr[c] = NoErr => ret[c] = workErr[c]
              /\ rbErr[c] /= NoErr => ret[c] = Errorf(workErr[c], rbErr[c])

\* a call failed at its first balance adjustment and returned that error
\* without issuing the second
StopAtFirstFailureWitness ==
    \E c \in Calls :
        /\ Done(c) /\ LastWriteFailed(c)
        /\ Len(Writes(c)) = 4 /\ Writes(c)[4].op = "AddAccountBalance"
        /\ StepDone(c, 3) /\ ~StepDone(c, 4)
        /\ ret[c] = ErrStmt

(* ---------------------------------------------------------------------- *)
(* C32  Money is conserved globally                                        *)
(* ---------------------------------------------------------------------- *)
\* the sum of f[id] over the ids in S
RECURSIVE SumOver(_, _)
SumOver(f, S) ==
    IF S = {} THEN 0
    ELSE LET id == CHOOSE x \in S : TRUE
         IN f[id] + SumOver(f, S \ {id})

\* the sum of the committed balances of all accounts
TotalBalance == SumOver([id \in DOMAIN accounts |-> accounts[id].balance], DOMAIN accounts)

\* C32: in every committed state, whatever transfers have committed, rolled
\* back or are still running, the balances of all accounts add up to what they
\* added up to in the initial state.
GlobalConservation ==
    /\ DOMAIN accounts = DOMAIN opening
    /\ TotalBalance = SumOver(opening, DOMAIN opening)

\* one transfer between distinct accounts has committed and moved the
\* balances, another has been rolled back
GlobalConservationWitness ==
    \E c, d \in Calls :
        /\ Succeeded(c) /\ Distinct(c)
        /\ accounts[arg[c].FromAccountID].balance /= opening[arg[c].FromAccountID]
        /\ Done(d) /\ txn[d].status = "rolledback" /\ Len(Writes(d)) = 5

(* ---------------------------------------------------------------------- *)
(* C33  Transfer frame                                                     *)
(* ---------------------------------------------------------------------- *)
\* the two accounts call c names
Endpoints(c) == {arg[c].FromAccountID, arg[c].ToAccountID}

\* C33: a step that commits a transfer between A and B changes the balance
\* of A and B alone, no other field of them, no field of any other account,
\* and adds entries on A and B only; every other step of a transfer, its
\* rollback included, changes no account and adds no entry.
TransferFrame ==
    [][ /\ DOMAIN accounts' = DOMAIN accounts
        /\ \A c \in Calls :
              CommitsNow(c) =>
                 /\ \A id \in DOMAIN accounts \ Endpoints(c) : accounts'[id] = accounts[id]
                 /\ \A id \in Endpoints(c) :
                       accounts'[id] = [accounts[id] EXCEPT !.balance = accounts'[id].balance]
                 /\ \A e \in entries' \ entries : e.account_id \in Endpoints(c)
                 /\ \A t \in transfers' \ transfers :
                       {t.from_account_id, t.to_account_id} = Endpoints(c)
        /\ (\A c \in Calls : ~CommitsNow(c)) =>
              (accounts' = accounts /\ entries' = entries /\ transfers' = transfers)
      ]_vars

\* a transfer between two accounts has committed, another has been rolled
\* back after all its writes, and the third account is as it was opened, with
\* no entry
TransferFrameWitness ==
    \E c, d \in Calls : \E id \in AccountIDs :
        /\ Succeeded(c) /\ Distinct(c) /\ id \notin Endpoints(c)
        /\ Done(d) /\ txn[d].status = "rolledback" /\ Len(Writes(d)) = 5
        /\ id \in Endpoints(d)
        /\ accounts[id].balance = opening[id]
        /\ accounts[arg[c].ToAccountID].balance /= opening[arg[c].ToAccountID]
        /\ \A e \in entries : e.account_id /= id

(* ---------------------------------------------------------------------- *)
(* C35  Transfer to or from a missing account                              *)
(* ---------------------------------------------------------------------- *)
\* call c names an account that does not exist
NamesMissing(c) == pc[c] /= "idle" /\ ~(Endpoints(c) \subseteq DOMAIN accounts)

\* C35: a call of TransferTx whose source or destination names no existing
\* account never commits and, once it has returned, has returned an error;
\* the committed state holds no transfer record and no entry of it, and the
\* balances are the opening balances and the transfers of the other calls.
MissingAccount ==
    /\ \A c \in Calls :
          NamesMissing(c) =>
             /\ ~Committed(c)
             /\ Done(c) => ret[c] /= NoErr
             /\ \A t \in transfers : t.id /= TransferID(c)
             /\ \A e \in entries : e.id \notin {EntryID(c, "CreateEntry1"), EntryID(c, "CreateEntry2")}
             /\ \A t \in transfers : MissingID \notin {t.from_account_id, t.to_account_id}
             /\ \A e \in entries : e.account_id /= MissingID
    /\ \A id \in DOMAIN accounts :
          accounts[id].balance =
              opening[id] + SumCalls({c \in Calls : Committed(c) /\ ~NamesMissing(c)}, id)

\* a transfer to an account that does not exist was refused by the engine and
\* returned its error, while the transfer of the other caller committed
MissingAccountWitness ==
    \E c, d \in Calls :
        /\ Done(c) /\ NamesMissing(c) /\ arg[c].ToAccountID = MissingID
        /\ arg[c].FromAccountID \in DOMAIN accounts
        /\ ret[c] = ErrForeignKey /\ Len(Writes(c)) = 1
        /\ Succeeded(d) /\ Distinct(d)

(* ---------------------------------------------------------------------- *)
(* C36  Owner-only account access                                          *)
(* ---------------------------------------------------------------------- *)
\* the row of account id as it was opened
OpenedAccount(id) ==
    [id |-> id, owner |-> Owner(id), balance |-> opening[id],
     currency |-> Currency(id), created_at |-> CreatedAt(id)]

\* request r is a GET or DELETE /accounts/:id of an authenticated user that
\* the handler has begun to serve
AccessServed(r) ==
    /\ http[r].handler \in {"getAccount", "deleteAccount"}
    /\ http[r].next
    /\ http[r].pc \in {"DeleteAccount", "done"}

\* r called the store's DeleteAccount
CalledDeleteAccount(r) ==
    \E i \in DOMAIN http[r].store : http[r].store[i].op = "DeleteAccount"

\* r names an account of another user
ForeignAccount(r) ==
    /\ http[r].body.ok
    /\ http[r].body.ID \in AccountIDs
    /\ Owner(http[r].body.ID) /= http[r].payload

\* data is returned, and DeleteAccount called, for the owner alone, after the
\* lookup of the account
OwnerOnly(r) ==
    /\ (http[r].handler = "getAccount" /\ http[r].reply /= <<>>) =>
          /\ http[r].status = 200
          /\ http[r].reply = <<OpenedAccount(http[r].body.ID)>>
          /\ http[r].reply[1].owner = http[r].payload
    /\ (http[r].pc = "DeleteAccount" \/ CalledDeleteAccount(r)) =>
          /\ http[r].handler = "deleteAccount"
          /\ http[r].body.ID \in AccountIDs
          /\ Owner(http[r].body.ID) = http[r].payload
          /\ http[r].store[1] = [op |-> "GetAccount", arg |-> http[r].body.ID, err |-> NoErr]
          /\ Len(http[r].store) <= 2
    /\ ForeignAccount(r) =>
          /\ http[r].pc = "done"
          /\ http[r].status /= 200 /\ http[r].reply = <<>>
          /\ StoreOps(r) = <<"GetAccount">>
          /\ http[r].body.ID \in DOMAIN accounts
          /\ accounts[http[r].body.ID] = OpenedAccount(http[r].body.ID)

\* C36 as stated: data and deletion for the owner alone; any other
\* authenticated user is answered 401 and the account is left unchanged.
OwnerOnlyAccessAsStated ==
    \A r \in DOMAIN http :
        AccessServed(r) =>
            /\ OwnerOnly(r)
            /\ ForeignAccount(r) => http[r].status = 401

\* C36 amended: data and deletion for the owner alone; any other
\* authenticated user is answered 401 when the lookup of the account
\* succeeded and 500 when it failed, gets no data, and the account is left
\* unchanged.
OwnerOnlyAccess ==
    \A r \in DOMAIN http :
        AccessServed(r) =>
            /\ OwnerOnly(r)
            /\ ForeignAccount(r) =>
                  /\ http[r].store[1].err = NoErr => http[r].status = 401
                  /\ http[r].store[1].err /= NoErr => http[r].status = 500

\* a user asked to delete the account of another user and was answered 401
\* while the account stayed
OwnerOnlyAccessWitness ==
    \E r \in DOMAIN http :
        /\ AccessServed(r) /\ ForeignAccount(r)
        /\ http[r].handler = "deleteAccount"
        /\ http[r].status = 401 /\ http[r].store[1].err = NoErr
        /\ http[r].body.ID \in DOMAIN accounts

(* ---------------------------------------------------------------------- *)
(* C37  Constraint violations are distinguishable                          *)
(* ---------------------------------------------------------------------- *)
\* request r is a POST /accounts whose call of CreateAccount returned err
CreateAccountFailed(r) ==
    /\ AccountAnswered(r)
    /\ Len(http[r].store) = 1
    /\ http[r].store[1].op = "CreateAccount"
    /\ http[r].store[1].err /= NoErr

\* C37: when CreateAccount fails with a unique or foreign-key violation
\* createAccount answers 403, when it fails with any other error 500, in
\* neither case 200 or an account; every request gets one response, given
\* when it is answered and none before.
DistinguishableViolations ==
    \A r \in DOMAIN http :
        /\ CreateAccountFailed(r) =>
              /\ http[r].store[1].err \in {ErrUniqueViolation, ErrForeignKey} <=> http[r].status = 403
              /\ http[r].store[1].err \notin {ErrUniqueViolation, ErrForeignKey} <=> http[r].status = 500
              /\ http[r].status /= 200
              /\ http[r].reply = <<>>
        /\ http[r].responses = (IF http[r].pc = "done" THEN 1 ELSE 0)

\* a user who holds an account in the requested currency was answered 403
DistinguishableViolationsWitness ==
    \E r \in DOMAIN http :
        /\ CreateAccountFailed(r)
        /\ http[r].store[1].err = ErrUniqueViolation
        /\ http[r].status = 403 /\ http[r].responses = 1
        /\ \E id \in DOMAIN accounts :
              /\ accounts[id].owner = http[r].payload
              /\ accounts[id].currency = http[r].body.Currency

(* ---------------------------------------------------------------------- *)
(* C34  Referential integrity under concurrent deletion                    *)
(* ---------------------------------------------------------------------- *)
\* C34: in every committed state every entry and every transfer record
\* references accounts that exist, whatever a DELETE /accounts/:id does while
\* a POST /transfers is between its account checks and its commit.
ReferentialIntegrity ==
    /\ \A e \in entries : e.account_id \in DOMAIN accounts
    /\ \A t \in transfers : {t.from_account_id, t.to_account_id} \subseteq DOMAIN accounts

\* a transfer passed its account checks, the owner of the destination then
\* deleted the destination, and the transfer was refused by the engine and
\* answered 500 with nothing committed
ReferentialIntegrityWitness ==
    \E r, d \in DOMAIN http :
        /\ http[r].handler = "createTransfer" /\ CalledTransferTx(r)
        /\ http[r].pc = "done" /\ http[r].status = 500
        /\ ret[r] = ErrForeignKey
        /\ http[d].handler = "deleteAccount" /\ http[d].status = 200
        /\ http[d].body.ID = arg[r].ToAccountID
        /\ arg[r].ToAccountID \notin DOMAIN accounts
        /\ arg[r].FromAccountID \in DOMAIN accounts
        /\ transfers = {} /\ entries = {}

(* ---------------------------------------------------------------------- *)
(* C38  Independent transfers do not order each other                      *)
(* ---------------------------------------------------------------------- *)
\* calls c and d name no account in common
Disjoint(c, d) == Endpoints(c) \cap Endpoints(d) = {}

\* call c has run all its writes and its transaction is open
ReadyToCommit(c) == pc[c] = "Commit" /\ txn[c].status = "open"

\* C38: of two concurrent transfers over disjoint pairs of accounts neither
\* ever waits for a lock the other holds, each statement of either runs at
\* once, and whichever is ready to commit can commit then, whether the other
\* has committed, is still running or has not begun: either may commit first.
IndependentTransfers ==
    \A c \in Calls :
        /\ \A d \in Calls \ {c} :
              (pc[c] /= "idle" /\ pc[d] /= "idle") =>
                 /\ Disjoint(c, d)
                 /\ ~WaitsFor(c, d)
        /\ Granted(c)
        /\ ReadyToCommit(c) => ENABLED (Commit(c) /\ CommitsNow(c))

\* both transfers have run all their writes at once and hold their locks:
\* either can commit first
IndependentTransfersWitness ==
    \E c, d \in Calls :
        /\ c /= d /\ Disjoint(c, d)
        /\ ReadyToCommit(c) /\ ReadyToCommit(d)
        /\ Updated(c) = Endpoints(c) /\ Updated(d) = Endpoints(d)

====
